---------------------------- MODULE Spec2Model ----------------------------
(***************************************************************************)
(* zone-update: a uniform create/read/update/delete interface over the     *)
(* REST APIs of several DNS hosts.  The model holds one adapter instance   *)
(* (its Config, its identifier cache behind a mutex) and the upstream zone *)
(* it talks to.  Every operation of the DnsProvider trait is translated    *)
(* per adapter from its source; the answers of the upstream (statuses,     *)
(* acceptance of a mutation) are inputs of the operation.                  *)
(***************************************************************************)
EXTENDS Naturals, Sequences, FiniteSets, TLC

VARIABLES
    adapter,      \* which provider adapter this instance is
    dry_run,      \* Config.dry_run
    zone,         \* the upstream zone: a set of records [id, host, rtype, value]
    nextId,       \* the next record id the upstream assigns
    acc,          \* what the constructor put in the cache (DnSimple::new's acc)
    zone_id,      \* the identifier cache: {} is None, {id} is Some(id)
    poisoned,     \* the cache mutex was poisoned by a panic under the lock
    last,         \* the last finished operation: call, result, requests, zone before
    opsDone,      \* number of operations finished
    idOps,        \* number of finished operations that asked for the identifier
    resolveReqs,  \* number of upstream "resolve zone by domain" requests issued
    resolveFailed,\* some identifier resolution did not succeed
    holder,       \* concurrent callers: who holds the cache mutex (0: free)
    pc,           \* concurrent callers: position inside get_zone_id
    got,          \* concurrent callers: what get_zone_id returned
    eval,         \* the last call of a helper function: name, input, output
    runtime,      \* async callers: the executor that polls the bridge's futures
    tasks         \* async callers: the closure each caller handed to unblock

vars == <<adapter, dry_run, zone, nextId, acc, zone_id, poisoned, last, opsDone,
          idOps, resolveReqs, resolveFailed, holder, pc, got, eval, runtime, tasks>>

-----------------------------------------------------------------------------
(* Bounds of the model. *)

\* operations one caller issues in a run
MaxOps == 2
\* record ids the upstream can hand out
MaxId == 3
\* concurrent callers of one adapter
NumCallers == 2
\* largest integer handed to Bunny's record type decoder
MaxCode == 120

-----------------------------------------------------------------------------
(* Values. *)

Adapters == {"Bunny", "Cloudflare", "DeSec", "DigitalOcean", "DnsMadeEasy",
             "DnSimple", "Gandi", "Linode", "Porkbun"}

\* adapters that keep the zone/domain/account identifier behind a mutex
CacheAdapters == {"Bunny", "Cloudflare", "Linode", "DnSimple"}

Hosts  == {"h1", "h2"}
RTypes == {"A", "TXT"}
Values == {"v1", "v2"}

None    == {}
Some(x) == {x}
Unit    == {}

Ok(v)    == [tag |-> "Ok",    v |-> v,  e |-> ""]
Err(e)   == [tag |-> "Err",   v |-> {}, e |-> e]
Panicked == [tag |-> "Panic", v |-> {}, e |-> "panic"]

\* the identifier the upstream holds for Config.domain
UpstreamZoneId == "zid"

\* a request on the wire; fq tells whether the name was sent as host.domain
Req(k, id, host, fq, rtype, value) ==
    [k |-> k, id |-> id, host |-> host, fq |-> fq, rtype |-> rtype, value |-> value]

ResolveReq == Req("resolve", 0, "-", FALSE, "-", "-")

Sent(s, req) == [s EXCEPT !.log = Append(@, req)]

\* the answers the upstream gives to the requests of one operation
ResolveAnswers == {"ok", "empty", "notfound", "error"}
LookupAnswers  == {"200", "404", "500"}
MutateAnswers  == {"ok", "reject"}

-----------------------------------------------------------------------------
(* The upstream zone.  The upstream identifies a record name by its host   *)
(* label whether the request spells it "host" or "host.domain"; it lists   *)
(* records in ascending id order; a mutation it accepts is applied, one it *)
(* rejects (non-2xx status) changes nothing.                               *)

Matching(z, rtype, host) == {r \in z : r.host = host /\ r.rtype = rtype}

ByName(z, host) == {r \in z : r.host = host}

First(recs) == CHOOSE r \in recs : \A q \in recs : r.id <= q.id

UpCreate(s, host, rtype, value) ==
    [s EXCEPT !.zone = @ \cup {[id |-> s.nextId, host |-> host, rtype |-> rtype, value |-> value]},
              !.nextId = @ + 1]

UpReplace(s, id, host, rtype, value) ==
    [s EXCEPT !.zone = {r \in @ : r.id # id}
                       \cup {[id |-> id, host |-> host, rtype |-> rtype, value |-> value]}]

UpSetValue(s, id, value) ==
    [s EXCEPT !.zone = {IF r.id = id THEN [r EXCEPT !.value = value] ELSE r : r \in @}]

UpDelete(s, id) == [s EXCEPT !.zone = {r \in @ : r.id # id}]

UpPutRRSet(s, host, rtype, value) ==
    [s EXCEPT !.zone = (@ \ Matching(@, rtype, host))
                       \cup {[id |-> s.nextId, host |-> host, rtype |-> rtype, value |-> value]},
              !.nextId = @ + 1]

UpDeleteRRSet(s, host, rtype) ==
    [s EXCEPT !.zone = @ \ Matching(@, rtype, host)]

-----------------------------------------------------------------------------
(* The HTTP helpers. *)

\* ResponseToOption::to_option on the response of call()/send(): the status
\* contract 200 -> Some(body), 404 -> None, anything else -> ApiError
to_option(status, body) ==
    CASE status = "200" -> Ok(Some(body))
      [] status = "404" -> Ok(None)
      [] OTHER          -> Err("ApiError")

\* ResponseToOption::check_error on the response of a mutating request
check_error(answer) == IF answer = "ok" THEN Ok(Unit) ELSE Err("ApiError")

\* http::get / http::get_with_headers
get_with_headers(status, body) ==
    CASE status = "200" -> Ok(Some(body))
      [] status = "404" -> Ok(None)
      [] OTHER          -> Err("HttpError")

\* http::put / post / patch / delete: a non-success status is an HttpError
http_mutate(answer) == IF answer = "ok" THEN Ok(Unit) ELSE Err("HttpError")

-----------------------------------------------------------------------------
(* Bunny (src/bunny/mod.rs).  s is the adapter and the upstream before the  *)
(* call, a the upstream's answers; the result is [s: state after, r: the    *)
(* value returned].                                                         *)

\* the `?` operator: an Err (or a panic unwinding) ends the call, an Ok
\* value goes on to the rest of the function
Try(x, rest(_)) == IF x.r.tag # "Ok" THEN x ELSE rest(x)

Applied(a, before, after) == IF a.mutate = "ok" THEN after ELSE before

Bunny_get_zone_info(s, a) ==
    LET s1 == Sent(s, ResolveReq)
        resp == to_option(IF a.resolve = "notfound" THEN "404"
                          ELSE IF a.resolve = "error" THEN "500" ELSE "200",
                          IF a.resolve = "ok" THEN {UpstreamZoneId} ELSE {})
    IN  IF resp.tag # "Ok" THEN [s |-> s1, r |-> resp]
        ELSE IF resp.v = None THEN [s |-> s1, r |-> Err("RecordNotFound")]
        ELSE IF UpstreamZoneId \notin (CHOOSE items \in resp.v : TRUE)
             THEN [s |-> s1, r |-> Err("RecordNotFound")]
        ELSE [s |-> s1, r |-> Ok(UpstreamZoneId)]

\* get_zone_id forgetting to store the id it resolved
Bunny_get_zone_id_unstored(s, a) ==
    IF s.poisoned THEN [s |-> s, r |-> Err("LockingError")]
    ELSE IF s.zone_id # None THEN [s |-> s, r |-> Ok(CHOOSE id \in s.zone_id : TRUE)]
    ELSE Bunny_get_zone_info(s, a)

Bunny_get_zone_id(s, a) ==
    IF s.poisoned THEN [s |-> s, r |-> Err("LockingError")]
    ELSE IF s.zone_id # None THEN [s |-> s, r |-> Ok(CHOOSE id \in s.zone_id : TRUE)]
    ELSE LET z == Bunny_get_zone_info(s, a)
         IN  IF z.r.tag = "Ok"
             THEN [s |-> [z.s EXCEPT !.zone_id = Some(z.r.v)], r |-> z.r]
             ELSE z

Bunny_get_upstream_record(s, a, rtype, host) ==
    Try(Bunny_get_zone_id(s, a), LAMBDA z :
        LET s1 == Sent(z.s, Req("lookup", 0, "-", FALSE, "-", "-"))
                 found == Matching(s1.zone, rtype, host)
             IN  IF a.lookup # "200" THEN [s |-> s1, r |-> Err("ApiError")]
                 ELSE IF found = {} THEN [s |-> s1, r |-> Ok(None)]
                 ELSE [s |-> s1, r |-> Ok(Some(First(found)))])

Bunny_get_record(s, a, rtype, host) ==
    Try(Bunny_get_upstream_record(s, a, rtype, host), LAMBDA u :
        IF u.r.v = None THEN [s |-> u.s, r |-> Ok(None)]
        ELSE [s |-> u.s, r |-> Ok({rec.value : rec \in u.r.v})])

Bunny_create_record(s, a, rtype, host, value) ==
    Try(Bunny_get_zone_id(s, a), LAMBDA z :
        IF s.dry_run THEN [s |-> z.s, r |-> Ok(Unit)]
        ELSE LET s1 == Sent(z.s, Req("create", 0, host, FALSE, rtype, value))
             IN  [s |-> Applied(a, s1, UpCreate(s1, host, rtype, value)), r |-> Ok(Unit)])

Bunny_update_record(s, a, rtype, host, value) ==
    Try(Bunny_get_upstream_record(s, a, rtype, host), LAMBDA u :
        IF u.r.v = None THEN [s |-> u.s, r |-> Ok(Unit)]
        ELSE LET rec_id == (CHOOSE rec \in u.r.v : TRUE).id
             IN  Try(Bunny_get_zone_id(u.s, a), LAMBDA z :
                 IF s.dry_run THEN [s |-> z.s, r |-> Ok(Unit)]
                 ELSE LET s1 == Sent(z.s, Req("update", rec_id, host, FALSE, rtype, value))
                      IN  [s |-> Applied(a, s1, UpReplace(s1, rec_id, host, rtype, value)),
                           r |-> Ok(Unit)]))

Bunny_delete_record(s, a, rtype, host) ==
    Try(Bunny_get_upstream_record(s, a, rtype, host), LAMBDA u :
        IF u.r.v = None THEN [s |-> u.s, r |-> Ok(Unit)]
        ELSE LET rec_id == (CHOOSE rec \in u.r.v : TRUE).id
             IN  Try(Bunny_get_zone_id(u.s, a), LAMBDA z :
                 IF s.dry_run THEN [s |-> z.s, r |-> Ok(Unit)]
                 ELSE LET s1 == Sent(z.s, Req("delete", rec_id, "-", FALSE, "-", "-"))
                      IN  [s |-> Applied(a, s1, UpDelete(s1, rec_id)), r |-> Ok(Unit)]))

-----------------------------------------------------------------------------
(* Cloudflare (src/cloudflare/mod.rs). *)

check_response(response) ==
    IF response.v = None THEN Err("RecordNotFound")
    ELSE LET envelope == CHOOSE e \in response.v : TRUE
         IN  IF ~envelope.success THEN Err("ApiError") ELSE Ok(envelope.result)

Cloudflare_get_zone_info(s, a) ==
    LET s1 == Sent(s, ResolveReq)
        resp == to_option(IF a.resolve = "notfound" THEN "404"
                          ELSE IF a.resolve = "error" THEN "500" ELSE "200",
                          [success |-> TRUE,
                           result |-> IF a.resolve = "ok" THEN {UpstreamZoneId} ELSE {}])
    IN  IF resp.tag # "Ok" THEN [s |-> s1, r |-> resp]
        ELSE LET zones == check_response(resp)
             IN  IF zones.tag # "Ok" THEN [s |-> s1, r |-> zones]
                 ELSE IF zones.v = {} THEN [s |-> s1, r |-> Panicked]
                 ELSE [s |-> s1, r |-> Ok(CHOOSE id \in zones.v : TRUE)]

\* get_zone_id unwrapping the lock result
Cloudflare_get_zone_id_unwrapping(s, a) ==
    IF s.poisoned THEN [s |-> s, r |-> Panicked]
    ELSE IF s.zone_id # None THEN [s |-> s, r |-> Ok(CHOOSE id \in s.zone_id : TRUE)]
    ELSE LET z == Cloudflare_get_zone_info(s, a)
         IN  IF z.r.tag = "Ok"
             THEN [s |-> [z.s EXCEPT !.zone_id = Some(z.r.v)], r |-> z.r]
             ELSE IF z.r.tag = "Panic"
             THEN [s |-> [z.s EXCEPT !.poisoned = TRUE], r |-> z.r]
             ELSE z

Cloudflare_get_zone_id(s, a) ==
    IF s.poisoned THEN [s |-> s, r |-> Err("LockingError")]
    ELSE IF s.zone_id # None THEN [s |-> s, r |-> Ok(CHOOSE id \in s.zone_id : TRUE)]
    ELSE LET z == Cloudflare_get_zone_info(s, a)
         IN  IF z.r.tag = "Ok"
             THEN [s |-> [z.s EXCEPT !.zone_id = Some(z.r.v)], r |-> z.r]
             ELSE IF z.r.tag = "Panic"
             THEN [s |-> [z.s EXCEPT !.poisoned = TRUE], r |-> z.r]
             ELSE z

Cloudflare_get_upstream_record(s, a, rtype, host) ==
    Try(Cloudflare_get_zone_id(s, a), LAMBDA z :
        LET s1 == Sent(z.s, Req("lookup", 0, host, TRUE, "-", "-"))
                 resp == to_option(IF a.lookup = "200f" THEN "200" ELSE a.lookup,
                                   [success |-> a.lookup # "200f",
                                    result |-> IF a.lookup = "200f" THEN {}
                                               ELSE ByName(s1.zone, host)])
             IN  IF resp.tag # "Ok" THEN [s |-> s1, r |-> resp]
                 ELSE LET recs == check_response(resp)
                      IN  IF recs.tag # "Ok" THEN [s |-> s1, r |-> recs]
                          ELSE IF Cardinality(recs.v) > 1
                               THEN [s |-> s1, r |-> Err("UnexpectedRecord")]
                          ELSE IF Cardinality(recs.v) = 0 THEN [s |-> s1, r |-> Ok(None)]
                          ELSE [s |-> s1, r |-> Ok(Some(First(recs.v)))])

Cloudflare_get_record(s, a, rtype, host) ==
    Try(Cloudflare_get_upstream_record(s, a, rtype, host), LAMBDA u :
        IF u.r.v = None THEN [s |-> u.s, r |-> Ok(None)]
        ELSE [s |-> u.s, r |-> Ok({rec.value : rec \in u.r.v})])

Cloudflare_create_record(s, a, rtype, host, value) ==
    Try(Cloudflare_get_zone_id(s, a), LAMBDA z :
        IF s.dry_run THEN [s |-> z.s, r |-> Ok(Unit)]
        ELSE LET s1 == Sent(z.s, Req("create", 0, host, TRUE, rtype, value))
             IN  [s |-> Applied(a, s1, UpCreate(s1, host, rtype, value)), r |-> Ok(Unit)])

Cloudflare_update_record(s, a, rtype, host, value) ==
    Try(Cloudflare_get_upstream_record(s, a, rtype, host), LAMBDA u :
        IF u.r.v = None THEN [s |-> u.s, r |-> Ok(Unit)]
        ELSE LET rec_id == (CHOOSE rec \in u.r.v : TRUE).id
             IN  Try(Cloudflare_get_zone_id(u.s, a), LAMBDA z :
                 IF s.dry_run THEN [s |-> z.s, r |-> Ok(Unit)]
                 ELSE LET s1 == Sent(z.s, Req("update", rec_id, host, FALSE, rtype, value))
                      IN  [s |-> Applied(a, s1, UpReplace(s1, rec_id, host, rtype, value)),
                           r |-> Ok(Unit)]))

Cloudflare_delete_record(s, a, rtype, host) ==
    Try(Cloudflare_get_upstream_record(s, a, rtype, host), LAMBDA u :
        IF u.r.v = None THEN [s |-> u.s, r |-> Ok(Unit)]
        ELSE LET rec_id == (CHOOSE rec \in u.r.v : TRUE).id
             IN  Try(Cloudflare_get_zone_id(u.s, a), LAMBDA z :
                 IF s.dry_run THEN [s |-> z.s, r |-> Ok(Unit)]
                 ELSE LET s1 == Sent(z.s, Req("delete", rec_id, "-", FALSE, "-", "-"))
                      IN  [s |-> Applied(a, s1, UpDelete(s1, rec_id)), r |-> Ok(Unit)]))

-----------------------------------------------------------------------------
(* deSEC (src/desec/mod.rs): the upstream keeps one RRset per (subname,    *)
(* type); POST creates an RRset and is rejected when one exists.           *)

DeSec_get_record(s, a, rtype, host) ==
    LET s1 == Sent(s, Req("lookup", 0, host, FALSE, rtype, "-"))
        response == to_option(a.lookup, Matching(s1.zone, rtype, host))
    IN  IF response.tag # "Ok" THEN [s |-> s1, r |-> response]
        ELSE IF response.v = None THEN [s |-> s1, r |-> Ok(None)]
        ELSE LET records == CHOOSE rrset \in response.v : TRUE
                 nr == Cardinality(records)
             IN  IF nr > 1 THEN [s |-> s1, r |-> Err("UnexpectedRecord")]
                 ELSE IF nr = 0 THEN [s |-> s1, r |-> Ok(None)]
                 ELSE [s |-> s1, r |-> Ok(Some(First(records).value))]

DeSec_create_record(s, a, rtype, host, value) ==
    IF s.dry_run THEN [s |-> s, r |-> Ok(Unit)]
    ELSE LET s1 == Sent(s, Req("create", 0, host, FALSE, rtype, value))
             answer == IF Matching(s1.zone, rtype, host) # {} THEN "reject" ELSE a.mutate
         IN  [s |-> IF answer = "ok" THEN UpPutRRSet(s1, host, rtype, value) ELSE s1,
              r |-> check_error(answer)]

DeSec_update_record(s, a, rtype, host, value) ==
    IF s.dry_run THEN [s |-> s, r |-> Ok(Unit)]
    ELSE LET s1 == Sent(s, Req("update", 0, host, FALSE, rtype, value))
         IN  [s |-> Applied(a, s1, UpPutRRSet(s1, host, rtype, value)),
              r |-> check_error(a.mutate)]

DeSec_delete_record(s, a, rtype, host) ==
    IF s.dry_run THEN [s |-> s, r |-> Ok(Unit)]
    ELSE LET s1 == Sent(s, Req("delete", 0, host, FALSE, rtype, "-"))
         IN  [s |-> Applied(a, s1, UpDeleteRRSet(s1, host, rtype)), r |-> Ok(Unit)]

-----------------------------------------------------------------------------
(* DigitalOcean (src/digitalocean/mod.rs). *)

\* get_upstream_record taking the first record of the answer without
\* counting them
DigitalOcean_get_upstream_record_first(s, a, rtype, host) ==
    LET s1 == Sent(s, Req("lookup", 0, host, TRUE, rtype, "-"))
        response == to_option(a.lookup, Matching(s1.zone, rtype, host))
    IN  IF response.tag # "Ok" THEN [s |-> s1, r |-> response]
        ELSE IF response.v = None THEN [s |-> s1, r |-> Ok(None)]
        ELSE LET domain_records == CHOOSE recs \in response.v : TRUE
             IN  IF domain_records = {} THEN [s |-> s1, r |-> Ok(None)]
                 ELSE [s |-> s1, r |-> Ok(Some(First(domain_records)))]

DigitalOcean_get_upstream_record(s, a, rtype, host) ==
    LET s1 == Sent(s, Req("lookup", 0, host, TRUE, rtype, "-"))
        response == to_option(a.lookup, Matching(s1.zone, rtype, host))
    IN  IF response.tag # "Ok" THEN [s |-> s1, r |-> response]
        ELSE IF response.v = None THEN [s |-> s1, r |-> Ok(None)]
        ELSE LET domain_records == CHOOSE recs \in response.v : TRUE
                 nr == Cardinality(domain_records)
             IN  IF nr > 1 THEN [s |-> s1, r |-> Err("UnexpectedRecord")]
                 ELSE IF nr = 0 THEN [s |-> s1, r |-> Ok(None)]
                 ELSE [s |-> s1, r |-> Ok(Some(First(domain_records)))]

DigitalOcean_get_record_id(s, a, rtype, host) ==
    Try(DigitalOcean_get_upstream_record(s, a, rtype, host), LAMBDA u :
        [s |-> u.s, r |-> Ok({rec.id : rec \in u.r.v})])

DigitalOcean_get_record(s, a, rtype, host) ==
    Try(DigitalOcean_get_upstream_record(s, a, rtype, host), LAMBDA u :
        IF u.r.v = None THEN [s |-> u.s, r |-> Ok(None)]
        ELSE [s |-> u.s, r |-> Ok({rec.value : rec \in u.r.v})])

DigitalOcean_create_record(s, a, rtype, host, value) ==
    IF s.dry_run THEN [s |-> s, r |-> Ok(Unit)]
    ELSE LET s1 == Sent(s, Req("create", 0, host, FALSE, rtype, value))
         IN  [s |-> Applied(a, s1, UpCreate(s1, host, rtype, value)),
              r |-> check_error(a.mutate)]

DigitalOcean_update_record(s, a, rtype, host, value) ==
    Try(DigitalOcean_get_record_id(s, a, rtype, host), LAMBDA i :
        IF i.r.v = None THEN [s |-> i.s, r |-> Err("RecordNotFound")]
        ELSE LET id == CHOOSE x \in i.r.v : TRUE
             IN  IF s.dry_run THEN [s |-> i.s, r |-> Ok(Unit)]
                 ELSE LET s1 == Sent(i.s, Req("update", id, host, FALSE, rtype, value))
                      IN  [s |-> Applied(a, s1, UpReplace(s1, id, host, rtype, value)),
                           r |-> check_error(a.mutate)])

\* delete_record treating a failed lookup as "nothing to delete"
DigitalOcean_delete_record_lenient(s, a, rtype, host) ==
    LET i == DigitalOcean_get_record_id(s, a, rtype, host)
    IN  IF i.r.tag # "Ok" \/ i.r.v = None THEN [s |-> i.s, r |-> Ok(Unit)]
        ELSE LET id == CHOOSE x \in i.r.v : TRUE
             IN  IF s.dry_run THEN [s |-> i.s, r |-> Ok(Unit)]
                 ELSE LET s1 == Sent(i.s, Req("delete", id, "-", FALSE, "-", "-"))
                      IN  [s |-> Applied(a, s1, UpDelete(s1, id)), r |-> Ok(Unit)]

DigitalOcean_delete_record(s, a, rtype, host) ==
    Try(DigitalOcean_get_record_id(s, a, rtype, host), LAMBDA i :
        IF i.r.v = None THEN [s |-> i.s, r |-> Ok(Unit)]
        ELSE LET id == CHOOSE x \in i.r.v : TRUE
             IN  IF s.dry_run THEN [s |-> i.s, r |-> Ok(Unit)]
                 ELSE LET s1 == Sent(i.s, Req("delete", id, "-", FALSE, "-", "-"))
                      IN  [s |-> Applied(a, s1, UpDelete(s1, id)), r |-> Ok(Unit)])

-----------------------------------------------------------------------------
(* Linode (src/linode/mod.rs). *)

Linode_get_domain(s, a) ==
    LET s1 == Sent(s, ResolveReq)
        resp == to_option(IF a.resolve = "notfound" THEN "404"
                          ELSE IF a.resolve = "error" THEN "500" ELSE "200",
                          IF a.resolve = "ok" THEN {UpstreamZoneId} ELSE {})
    IN  IF resp.tag # "Ok" THEN [s |-> s1, r |-> resp]
        ELSE IF resp.v = None THEN [s |-> s1, r |-> Err("ApiError")]
        ELSE IF UpstreamZoneId \notin (CHOOSE data \in resp.v : TRUE)
             THEN [s |-> s1, r |-> Err("RecordNotFound")]
        ELSE [s |-> s1, r |-> Ok(UpstreamZoneId)]

\* get_domain_id asking the upstream again whatever the cache holds
Linode_get_domain_id_refreshing(s, a) ==
    IF s.poisoned THEN [s |-> s, r |-> Err("LockingError")]
    ELSE LET d == Linode_get_domain(s, a)
         IN  IF d.r.tag = "Ok"
             THEN [s |-> [d.s EXCEPT !.zone_id = Some(d.r.v)], r |-> d.r]
             ELSE [s |-> [d.s EXCEPT !.zone_id = None], r |-> d.r]

Linode_get_domain_id(s, a) ==
    IF s.poisoned THEN [s |-> s, r |-> Err("LockingError")]
    ELSE IF s.zone_id # None THEN [s |-> s, r |-> Ok(CHOOSE id \in s.zone_id : TRUE)]
    ELSE LET d == Linode_get_domain(s, a)
         IN  IF d.r.tag = "Ok"
             THEN [s |-> [d.s EXCEPT !.zone_id = Some(d.r.v)], r |-> d.r]
             ELSE d

Linode_get_upstream_record(s, a, rtype, host) ==
    Try(Linode_get_domain_id(s, a), LAMBDA d :
        LET s1 == Sent(d.s, Req("lookup", 0, "-", FALSE, "-", "-"))
                 found == Matching(s1.zone, rtype, host)
             IN  IF a.lookup # "200" THEN [s |-> s1, r |-> Err("ApiError")]
                 ELSE IF found = {} THEN [s |-> s1, r |-> Ok(None)]
                 ELSE [s |-> s1, r |-> Ok(Some(First(found)))])

Linode_get_record_id(s, a, rtype, host) ==
    Try(Linode_get_upstream_record(s, a, rtype, host), LAMBDA u :
        [s |-> u.s, r |-> Ok({rec.id : rec \in u.r.v})])

Linode_get_record(s, a, rtype, host) ==
    Try(Linode_get_upstream_record(s, a, rtype, host), LAMBDA u :
        IF u.r.v = None THEN [s |-> u.s, r |-> Ok(None)]
        ELSE [s |-> u.s, r |-> Ok({rec.value : rec \in u.r.v})])

Linode_create_record(s, a, rtype, host, value) ==
    Try(Linode_get_domain_id(s, a), LAMBDA d :
        IF s.dry_run THEN [s |-> d.s, r |-> Ok(Unit)]
        ELSE LET s1 == Sent(d.s, Req("create", 0, host, FALSE, rtype, value))
             IN  [s |-> Applied(a, s1, UpCreate(s1, host, rtype, value)),
                  r |-> check_error(a.mutate)])

Linode_update_record(s, a, rtype, host, value) ==
    Try(Linode_get_domain_id(s, a), LAMBDA d :
        Try(Linode_get_record_id(d.s, a, rtype, host), LAMBDA i :
                 IF i.r.v = None THEN [s |-> i.s, r |-> Err("RecordNotFound")]
                 ELSE LET id == CHOOSE x \in i.r.v : TRUE
                      IN  IF s.dry_run THEN [s |-> i.s, r |-> Ok(Unit)]
                          ELSE LET s1 == Sent(i.s, Req("update", id, host, FALSE, rtype, value))
                               IN  [s |-> Applied(a, s1, UpReplace(s1, id, host, rtype, value)),
                                    r |-> check_error(a.mutate)]))

Linode_delete_record(s, a, rtype, host) ==
    Try(Linode_get_record_id(s, a, rtype, host), LAMBDA i :
        IF i.r.v = None THEN [s |-> i.s, r |-> Ok(Unit)]
        ELSE LET id == CHOOSE x \in i.r.v : TRUE
             IN  Try(Linode_get_domain_id(i.s, a), LAMBDA d :
                 IF s.dry_run THEN [s |-> d.s, r |-> Ok(Unit)]
                 ELSE LET s1 == Sent(d.s, Req("delete", id, "-", FALSE, "-", "-"))
                      IN  [s |-> Applied(a, s1, UpDelete(s1, id)), r |-> Ok(Unit)]))

-----------------------------------------------------------------------------
(* Porkbun (src/porkbun/mod.rs). *)

Porkbun_get_upstream_record(s, a, rtype, host) ==
    LET s1 == Sent(s, Req("lookup", 0, host, FALSE, rtype, "-"))
        response == to_option(a.lookup, Matching(s1.zone, rtype, host))
    IN  IF response.tag # "Ok" THEN [s |-> s1, r |-> response]
        ELSE IF response.v = None THEN [s |-> s1, r |-> Ok(None)]
        ELSE LET records == CHOOSE recs \in response.v : TRUE
                 nr == Cardinality(records)
             IN  IF nr > 1 THEN [s |-> s1, r |-> Err("UnexpectedRecord")]
                 ELSE IF nr = 0 THEN [s |-> s1, r |-> Ok(None)]
                 ELSE [s |-> s1, r |-> Ok(Some(First(records)))]

Porkbun_get_record_id(s, a, rtype, host) ==
    Try(Porkbun_get_upstream_record(s, a, rtype, host), LAMBDA u :
        [s |-> u.s, r |-> Ok({rec.id : rec \in u.r.v})])

Porkbun_get_record(s, a, rtype, host) ==
    Try(Porkbun_get_upstream_record(s, a, rtype, host), LAMBDA u :
        IF u.r.v = None THEN [s |-> u.s, r |-> Ok(None)]
        ELSE [s |-> u.s, r |-> Ok({rec.value : rec \in u.r.v})])

Porkbun_create_record(s, a, rtype, host, value) ==
    IF s.dry_run THEN [s |-> s, r |-> Ok(Unit)]
    ELSE LET s1 == Sent(s, Req("create", 0, host, FALSE, rtype, value))
         IN  [s |-> Applied(a, s1, UpCreate(s1, host, rtype, value)),
              r |-> check_error(a.mutate)]

Porkbun_update_record(s, a, rtype, host, value) ==
    Try(Porkbun_get_upstream_record(s, a, rtype, host), LAMBDA u :
        IF u.r.v = None THEN Porkbun_create_record(u.s, a, rtype, host, value)
        ELSE LET existing == CHOOSE rec \in u.r.v : TRUE
             IN  IF s.dry_run THEN [s |-> u.s, r |-> Ok(Unit)]
                 ELSE LET s1 == Sent(u.s, Req("update", existing.id, host, FALSE, rtype, value))
                      IN  [s |-> Applied(a, s1, UpReplace(s1, existing.id, host, rtype, value)),
                           r |-> check_error(a.mutate)])

\* delete_record addressing the id of the first record the adapter ever saw
Porkbun_delete_record_remembered(s, a, rtype, host) ==
    IF s.dry_run THEN [s |-> s, r |-> Ok(Unit)]
    ELSE LET s1 == Sent(s, Req("delete", 1, "-", FALSE, "-", "-"))
         IN  [s |-> Applied(a, s1, UpDelete(s1, 1)), r |-> Ok(Unit)]

Porkbun_delete_record(s, a, rtype, host) ==
    Try(Porkbun_get_record_id(s, a, rtype, host), LAMBDA i :
        IF i.r.v = None THEN [s |-> i.s, r |-> Ok(Unit)]
        ELSE LET id == CHOOSE x \in i.r.v : TRUE
             IN  IF s.dry_run THEN [s |-> i.s, r |-> Ok(Unit)]
                 ELSE LET s1 == Sent(i.s, Req("delete", id, "-", FALSE, "-", "-"))
                      IN  [s |-> Applied(a, s1, UpDelete(s1, id)), r |-> Ok(Unit)])

-----------------------------------------------------------------------------
(* DNSimple (src/dnsimple/mod.rs): the account id sits behind an async     *)
(* mutex, which a panic does not poison.                                   *)

DnSimple_get_upstream_id(s, a) ==
    LET s1 == Sent(s, ResolveReq)
        accounts_p == get_with_headers(IF a.resolve = "notfound" THEN "404"
                                       ELSE IF a.resolve = "error" THEN "500" ELSE "200",
                                       IF a.resolve = "ok" THEN {UpstreamZoneId}
                                       ELSE IF a.resolve = "many"
                                            THEN {UpstreamZoneId, "zid2"} ELSE {})
    IN  IF accounts_p.tag # "Ok" THEN [s |-> s1, r |-> accounts_p]
        ELSE IF accounts_p.v # None
                /\ Cardinality(CHOOSE accounts \in accounts_p.v : TRUE) = 1
             THEN [s |-> s1, r |-> Ok(UpstreamZoneId)]
        ELSE [s |-> s1, r |-> Err("ApiError")]

\* get_id asking the upstream whatever the constructor was given
DnSimple_get_id_resolving(s, a) ==
    LET u == DnSimple_get_upstream_id(s, a)
    IN  IF u.r.tag = "Ok"
        THEN [s |-> [u.s EXCEPT !.zone_id = Some(u.r.v)], r |-> u.r]
        ELSE u

DnSimple_get_id(s, a) ==
    IF s.zone_id # None THEN [s |-> s, r |-> Ok(CHOOSE id \in s.zone_id : TRUE)]
    ELSE LET u == DnSimple_get_upstream_id(s, a)
         IN  IF u.r.tag = "Ok"
             THEN [s |-> [u.s EXCEPT !.zone_id = Some(u.r.v)], r |-> u.r]
             ELSE u

DnSimple_get_upstream_record(s, a, rtype, host) ==
    Try(DnSimple_get_id(s, a), LAMBDA g :
        LET s1 == Sent(g.s, Req("lookup", 0, host, FALSE, rtype, "-"))
                 response == get_with_headers(a.lookup, Matching(s1.zone, rtype, host))
             IN  IF response.tag # "Ok" THEN [s |-> s1, r |-> response]
                 ELSE IF response.v = None THEN [s |-> s1, r |-> Ok(None)]
                 ELSE LET records == CHOOSE recs \in response.v : TRUE
                          nr == Cardinality(records)
                      IN  IF nr > 1 THEN [s |-> s1, r |-> Err("UnexpectedRecord")]
                          ELSE IF nr = 0 THEN [s |-> s1, r |-> Ok(None)]
                          ELSE [s |-> s1, r |-> Ok(Some(First(records)))])

DnSimple_get_record(s, a, rtype, host) ==
    Try(DnSimple_get_upstream_record(s, a, rtype, host), LAMBDA u :
        IF u.r.v = None THEN [s |-> u.s, r |-> Ok(None)]
        ELSE [s |-> u.s, r |-> Ok({rec.value : rec \in u.r.v})])

DnSimple_create_record(s, a, rtype, host, value) ==
    Try(DnSimple_get_id(s, a), LAMBDA g :
        IF s.dry_run THEN [s |-> g.s, r |-> Ok(Unit)]
        ELSE LET s1 == Sent(g.s, Req("create", 0, host, FALSE, rtype, value))
             IN  [s |-> Applied(a, s1, UpCreate(s1, host, rtype, value)),
                  r |-> http_mutate(a.mutate)])

DnSimple_update_record(s, a, rtype, host, value) ==
    Try(DnSimple_get_upstream_record(s, a, rtype, host), LAMBDA u :
        IF u.r.v = None THEN [s |-> u.s, r |-> Ok(Unit)]
        ELSE LET rid == (CHOOSE rec \in u.r.v : TRUE).id
             IN  Try(DnSimple_get_id(u.s, a), LAMBDA g :
                 IF s.dry_run THEN [s |-> g.s, r |-> Ok(Unit)]
                 ELSE LET s1 == Sent(g.s, Req("update", rid, "-", FALSE, "-", value))
                      IN  [s |-> Applied(a, s1, UpSetValue(s1, rid, value)),
                           r |-> http_mutate(a.mutate)]))

DnSimple_delete_record(s, a, rtype, host) ==
    Try(DnSimple_get_upstream_record(s, a, rtype, host), LAMBDA u :
        IF u.r.v = None THEN [s |-> u.s, r |-> Ok(Unit)]
        ELSE LET rid == (CHOOSE rec \in u.r.v : TRUE).id
             IN  Try(DnSimple_get_id(u.s, a), LAMBDA g :
                 IF s.dry_run THEN [s |-> g.s, r |-> Ok(Unit)]
                 ELSE LET s1 == Sent(g.s, Req("delete", rid, "-", FALSE, "-", "-"))
                      IN  [s |-> Applied(a, s1, UpDelete(s1, rid)),
                           r |-> http_mutate(a.mutate)]))

-----------------------------------------------------------------------------
(* Gandi (src/gandi/mod.rs): one RRset per (name, type); PUT creates or    *)
(* replaces it.                                                            *)

Gandi_get_record(s, a, rtype, host) ==
    LET s1 == Sent(s, Req("lookup", 0, host, FALSE, rtype, "-"))
        response == get_with_headers(a.lookup, Matching(s1.zone, rtype, host))
    IN  IF response.tag # "Ok" THEN [s |-> s1, r |-> response]
        ELSE IF response.v = None THEN [s |-> s1, r |-> Ok(None)]
        ELSE LET rrset_values == CHOOSE rec \in response.v : TRUE
                 nr == Cardinality(rrset_values)
             IN  IF nr > 1 THEN [s |-> s1, r |-> Err("UnexpectedRecord")]
                 ELSE IF nr = 0 THEN [s |-> s1, r |-> Ok(None)]
                 ELSE [s |-> s1, r |-> Ok(Some(First(rrset_values).value))]

Gandi_update_record(s, a, rtype, host, value) ==
    IF s.dry_run THEN [s |-> s, r |-> Ok(Unit)]
    ELSE LET s1 == Sent(s, Req("update", 0, host, FALSE, rtype, value))
         IN  [s |-> Applied(a, s1, UpPutRRSet(s1, host, rtype, value)),
              r |-> http_mutate(a.mutate)]

Gandi_create_record(s, a, rtype, host, value) ==
    Gandi_update_record(s, a, rtype, host, value)

Gandi_delete_record(s, a, rtype, host) ==
    IF s.dry_run THEN [s |-> s, r |-> Ok(Unit)]
    ELSE LET s1 == Sent(s, Req("delete", 0, host, FALSE, rtype, "-"))
         IN  [s |-> Applied(a, s1, UpDeleteRRSet(s1, host, rtype)),
              r |-> http_mutate(a.mutate)]

-----------------------------------------------------------------------------
(* DNS Made Easy (src/dnsmadeeasy/mod.rs): the four primitives are          *)
(* unimplemented!() and panic when called.                                  *)

DnsMadeEasy_get_record(s, a, rtype, host) == [s |-> s, r |-> Panicked]

DnsMadeEasy_create_record(s, a, rtype, host, value) == [s |-> s, r |-> Panicked]

DnsMadeEasy_update_record(s, a, rtype, host, value) == [s |-> s, r |-> Panicked]

DnsMadeEasy_delete_record(s, a, rtype, host) == [s |-> s, r |-> Panicked]

-----------------------------------------------------------------------------
(* The DnsProvider trait: the primitive of the adapter instance p. *)

get_record(p, s, a, rtype, host) ==
    CASE p = "Bunny"        -> Bunny_get_record(s, a, rtype, host)
      [] p = "Cloudflare"   -> Cloudflare_get_record(s, a, rtype, host)
      [] p = "DeSec"        -> DeSec_get_record(s, a, rtype, host)
      [] p = "DigitalOcean" -> DigitalOcean_get_record(s, a, rtype, host)
      [] p = "DnSimple"     -> DnSimple_get_record(s, a, rtype, host)
      [] p = "Gandi"        -> Gandi_get_record(s, a, rtype, host)
      [] p = "Linode"       -> Linode_get_record(s, a, rtype, host)
      [] p = "Porkbun"      -> Porkbun_get_record(s, a, rtype, host)
      [] OTHER              -> DnsMadeEasy_get_record(s, a, rtype, host)

create_record(p, s, a, rtype, host, value) ==
    CASE p = "Bunny"        -> Bunny_create_record(s, a, rtype, host, value)
      [] p = "Cloudflare"   -> Cloudflare_create_record(s, a, rtype, host, value)
      [] p = "DeSec"        -> DeSec_create_record(s, a, rtype, host, value)
      [] p = "DigitalOcean" -> DigitalOcean_create_record(s, a, rtype, host, value)
      [] p = "DnSimple"     -> DnSimple_create_record(s, a, rtype, host, value)
      [] p = "Gandi"        -> Gandi_create_record(s, a, rtype, host, value)
      [] p = "Linode"       -> Linode_create_record(s, a, rtype, host, value)
      [] p = "Porkbun"      -> Porkbun_create_record(s, a, rtype, host, value)
      [] OTHER              -> DnsMadeEasy_create_record(s, a, rtype, host, value)

update_record(p, s, a, rtype, host, value) ==
    CASE p = "Bunny"        -> Bunny_update_record(s, a, rtype, host, value)
      [] p = "Cloudflare"   -> Cloudflare_update_record(s, a, rtype, host, value)
      [] p = "DeSec"        -> DeSec_update_record(s, a, rtype, host, value)
      [] p = "DigitalOcean" -> DigitalOcean_update_record(s, a, rtype, host, value)
      [] p = "DnSimple"     -> DnSimple_update_record(s, a, rtype, host, value)
      [] p = "Gandi"        -> Gandi_update_record(s, a, rtype, host, value)
      [] p = "Linode"       -> Linode_update_record(s, a, rtype, host, value)
      [] p = "Porkbun"      -> Porkbun_update_record(s, a, rtype, host, value)
      [] OTHER              -> DnsMadeEasy_update_record(s, a, rtype, host, value)

delete_record(p, s, a, rtype, host) ==
    CASE p = "Bunny"        -> Bunny_delete_record(s, a, rtype, host)
      [] p = "Cloudflare"   -> Cloudflare_delete_record(s, a, rtype, host)
      [] p = "DeSec"        -> DeSec_delete_record(s, a, rtype, host)
      [] p = "DigitalOcean" -> DigitalOcean_delete_record(s, a, rtype, host)
      [] p = "DnSimple"     -> DnSimple_delete_record(s, a, rtype, host)
      [] p = "Gandi"        -> Gandi_delete_record(s, a, rtype, host)
      [] p = "Linode"       -> Linode_delete_record(s, a, rtype, host)
      [] p = "Porkbun"      -> Porkbun_delete_record(s, a, rtype, host)
      [] OTHER              -> DnsMadeEasy_delete_record(s, a, rtype, host)

-----------------------------------------------------------------------------
(* One caller issuing operations one after the other. *)

Callers == 1..NumCallers

Rec(id, host, rtype, value) == [id |-> id, host |-> host, rtype |-> rtype, value |-> value]

\* the zones an adapter can find upstream when it is constructed: empty, one
\* record, two records for the same host and type, a second record of
\* another type at the same host, a second record at another host
InitialZones ==
    { {},
      {Rec(1, "h1", "A", "v1")},
      {Rec(1, "h1", "TXT", "v1")},
      {Rec(1, "h1", "A", "v1"), Rec(2, "h1", "A", "v2")},
      {Rec(1, "h1", "A", "v1"), Rec(2, "h1", "TXT", "v2")},
      {Rec(1, "h1", "A", "v1"), Rec(2, "h2", "A", "v2")} }

\* no helper function called
NoEval == [f |-> "none", in |-> <<>>, out |-> <<>>]

\* no closure handed to the worker pool
NoTask == [st |-> "none", op |-> "-", rtype |-> "-", host |-> "-", value |-> "-",
           by |-> "-", held |-> TRUE, runs |-> 0, r |-> Ok(Unit), lost |-> 0]

NoCall == [op |-> "none", rtype |-> "-", host |-> "-", value |-> "-",
           r |-> Ok(Unit), log |-> <<>>, zoneBefore |-> {},
           idBefore |-> None, poisonedBefore |-> FALSE,
           a |-> [resolve |-> "ok", lookup |-> "200", mutate |-> "ok"]]

Init ==
    /\ adapter \in Adapters
    /\ dry_run \in BOOLEAN
    /\ zone \in InitialZones
    /\ nextId = Cardinality(zone) + 1
    /\ acc \in (IF adapter = "DnSimple" THEN {None, Some(UpstreamZoneId)} ELSE {None})
    /\ zone_id = acc
    /\ poisoned = FALSE
    /\ last = NoCall
    /\ opsDone = 0
    /\ idOps = 0
    /\ resolveReqs = 0
    /\ resolveFailed = FALSE
    /\ holder = 0
    /\ pc = [c \in Callers |-> "idle"]
    /\ got = [c \in Callers |-> "-"]
    /\ eval = NoEval
    /\ runtime = "none"
    /\ tasks = [c \in Callers |-> NoTask]

\* the adapter and the upstream as one operation finds them
Here == [zone |-> zone, nextId |-> nextId, zone_id |-> zone_id,
         poisoned |-> poisoned, dry_run |-> dry_run, log |-> <<>>]

\* what the adapter's lookup request selects upstream
Queried(p, z, rtype, host) ==
    IF p = "Cloudflare" THEN ByName(z, host) ELSE Matching(z, rtype, host)

\* the answers the upstream can give to the requests of one operation: a
\* resolution is only asked for with an empty cache (DNSimple's account
\* list can also hold several accounts, "many"), 404 only answers a
\* query that selects nothing, and only Cloudflare wraps answers in an
\* envelope that can report failure ("200f")
AnswersFor(p, rtype, host, mutating) ==
    [resolve : IF p \in CacheAdapters /\ zone_id = None /\ ~poisoned
               THEN ResolveAnswers \cup (IF p = "DnSimple" THEN {"many"} ELSE {})
               ELSE {"ok"},
     lookup  : {"200", "500"}
               \cup (IF p \notin {"Bunny", "Linode"} /\ Queried(p, zone, rtype, host) = {}
                     THEN {"404"} ELSE {})
               \cup (IF p = "Cloudflare" THEN {"200f"} ELSE {}),
     mutate  : IF mutating THEN MutateAnswers ELSE {"ok"}]

NrResolves(log) == Cardinality({i \in 1..Len(log) : log[i].k = "resolve"})

\* an answer is only given to a request that was sent
Consumed(a, log) ==
    /\ (a.resolve # "ok"  => \E i \in 1..Len(log) : log[i].k = "resolve")
    /\ (a.lookup # "200"  => \E i \in 1..Len(log) : log[i].k = "lookup")
    /\ (a.mutate # "ok"   => \E i \in 1..Len(log) : log[i].k \in {"create", "update", "delete"})

Complete(op, rtype, host, value, a, out) ==
    /\ out.s.nextId <= MaxId + 1
    /\ Consumed(a, out.s.log)
    /\ zone' = out.s.zone
    /\ nextId' = out.s.nextId
    /\ zone_id' = out.s.zone_id
    /\ poisoned' = out.s.poisoned
    /\ last' = [op |-> op, rtype |-> rtype, host |-> host, value |-> value,
                r |-> out.r, log |-> out.s.log, zoneBefore |-> zone,
                idBefore |-> zone_id, poisonedBefore |-> poisoned, a |-> a]
    /\ opsDone' = opsDone + 1
    /\ idOps' = IF adapter \in CacheAdapters THEN idOps + 1 ELSE idOps
    /\ resolveReqs' = resolveReqs + NrResolves(out.s.log)
    /\ resolveFailed' = (resolveFailed \/ a.resolve # "ok")
    /\ UNCHANGED <<adapter, dry_run, acc, holder, pc, got, eval, runtime>>

Finish(op, rtype, host, value, a, out) ==
    Complete(op, rtype, host, value, a, out) /\ UNCHANGED tasks

GetRecord ==
    /\ opsDone < MaxOps
    /\ \E rtype \in RTypes, host \in Hosts :
         \E a \in AnswersFor(adapter, rtype, host, FALSE) :
            Finish("get_record", rtype, host, "-", a,
                   get_record(adapter, Here, a, rtype, host))

CreateRecord ==
    /\ opsDone < MaxOps
    /\ \E rtype \in RTypes, host \in Hosts, value \in Values :
         \E a \in AnswersFor(adapter, rtype, host, TRUE) :
            Finish("create_record", rtype, host, value, a,
                   create_record(adapter, Here, a, rtype, host, value))

UpdateRecord ==
    /\ opsDone < MaxOps
    /\ \E rtype \in RTypes, host \in Hosts, value \in Values :
         \E a \in AnswersFor(adapter, rtype, host, TRUE) :
            Finish("update_record", rtype, host, value, a,
                   update_record(adapter, Here, a, rtype, host, value))

DeleteRecord ==
    /\ opsDone < MaxOps
    /\ \E rtype \in RTypes, host \in Hosts :
         \E a \in AnswersFor(adapter, rtype, host, TRUE) :
            Finish("delete_record", rtype, host, "-", a,
                   delete_record(adapter, Here, a, rtype, host))

Next == GetRecord \/ CreateRecord \/ UpdateRecord \/ DeleteRecord

Spec == Init /\ [][Next]_vars

-----------------------------------------------------------------------------
(* Several callers of one adapter (threads, or closures the async bridge   *)
(* handed to its worker pool: they share the adapter through an Arc).      *)
(* Each runs get_zone_id / get_domain_id / get_id step by step: take the   *)
(* mutex, look at the cache, call the upstream, store, release.            *)

get_zone_info(p, s, a) ==
    CASE p = "Bunny"      -> Bunny_get_zone_info(s, a)
      [] p = "Cloudflare" -> Cloudflare_get_zone_info(s, a)
      [] p = "Linode"     -> Linode_get_domain(s, a)
      [] OTHER            -> DnSimple_get_upstream_id(s, a)

InitConc == Init /\ adapter \in CacheAdapters

\* self.zone_id.lock(): blocks while another caller holds the mutex; on a
\* poisoned mutex it fails with LockingError
Lock(c) ==
    /\ pc[c] = "idle"
    /\ opsDone < MaxOps
    /\ holder = 0
    /\ IF poisoned
       THEN /\ pc' = [pc EXCEPT ![c] = "done"]
            /\ got' = [got EXCEPT ![c] = "LockingError"]
            /\ UNCHANGED holder
       ELSE /\ pc' = [pc EXCEPT ![c] = "locked"]
            /\ holder' = c
            /\ UNCHANGED got
    /\ UNCHANGED <<adapter, dry_run, zone, nextId, acc, zone_id, poisoned, last,
                   opsDone, idOps, resolveReqs, resolveFailed, eval, runtime, tasks>>

\* if let Some(id) = id_p.as_ref() { return Ok(id) }; otherwise the upstream
\* request goes out with the guard still alive
\* get_zone_id dropping the guard before it calls the upstream
CheckCache_unguarded(c) ==
    /\ pc[c] = "locked"
    /\ IF zone_id # None
       THEN /\ got' = [got EXCEPT ![c] = CHOOSE id \in zone_id : TRUE]
            /\ pc' = [pc EXCEPT ![c] = "done"]
            /\ holder' = 0
            /\ UNCHANGED resolveReqs
       ELSE /\ pc' = [pc EXCEPT ![c] = "calling"]
            /\ resolveReqs' = resolveReqs + 1
            /\ holder' = 0
            /\ UNCHANGED got
    /\ UNCHANGED <<adapter, dry_run, zone, nextId, acc, zone_id, poisoned, last,
                   opsDone, idOps, resolveFailed, eval, runtime, tasks>>

CheckCache(c) ==
    /\ pc[c] = "locked"
    /\ IF zone_id # None
       THEN /\ got' = [got EXCEPT ![c] = CHOOSE id \in zone_id : TRUE]
            /\ pc' = [pc EXCEPT ![c] = "done"]
            /\ holder' = 0
            /\ UNCHANGED resolveReqs
       ELSE /\ pc' = [pc EXCEPT ![c] = "calling"]
            /\ resolveReqs' = resolveReqs + 1
            /\ UNCHANGED <<got, holder>>
    /\ UNCHANGED <<adapter, dry_run, zone, nextId, acc, zone_id, poisoned, last,
                   opsDone, idOps, resolveFailed, eval, runtime, tasks>>

\* the upstream answers; the id is stored and the guard dropped, or the
\* error returns through `?` (guard dropped), or the panic unwinds through
\* the guard and poisons a std::sync::Mutex
Resolved(c) ==
    /\ pc[c] = "calling"
    /\ \E ans \in ResolveAnswers :
         LET z == get_zone_info(adapter, Here, [resolve |-> ans, lookup |-> "200", mutate |-> "ok"])
         IN  /\ zone_id' = IF z.r.tag = "Ok" THEN Some(z.r.v) ELSE zone_id
             /\ poisoned' = (poisoned \/ z.r.tag = "Panic")
             /\ got' = [got EXCEPT ![c] = IF z.r.tag = "Ok" THEN z.r.v ELSE z.r.e]
             /\ resolveFailed' = (resolveFailed \/ z.r.tag # "Ok")
    /\ pc' = [pc EXCEPT ![c] = "done"]
    /\ holder' = IF holder = c THEN 0 ELSE holder
    /\ UNCHANGED <<adapter, dry_run, zone, nextId, acc, last, opsDone, idOps, resolveReqs,
                   eval, runtime, tasks>>

Return(c) ==
    /\ pc[c] = "done"
    /\ pc' = [pc EXCEPT ![c] = "idle"]
    /\ opsDone' = opsDone + 1
    /\ idOps' = idOps + 1
    /\ UNCHANGED <<adapter, dry_run, zone, nextId, acc, zone_id, poisoned, last,
                   resolveReqs, resolveFailed, holder, got, eval, runtime, tasks>>

NextConc == \E c \in Callers : Lock(c) \/ CheckCache(c) \/ Resolved(c) \/ Return(c)

SpecConc == InitConc /\ [][NextConc]_vars

-----------------------------------------------------------------------------
(* Properties.  `last` is the call that led to the current state: its      *)
(* arguments, the zone it found, the upstream's answers, the requests it   *)
(* sent and what it returned.                                              *)

\* an upstream that resolves the zone, answers the lookup with the records
\* (or with 404 when there are none) and accepts the mutation
Cooperative(a) ==
    a.resolve = "ok" /\ a.lookup \in {"200", "404"} /\ a.mutate = "ok"

LookupSent(log) == \E i \in 1..Len(log) : log[i].k = "lookup"

MutationSent(log) == \E i \in 1..Len(log) : log[i].k \in {"create", "update", "delete"}

\* what get_record returns in the current state for the host and type of
\* the last call, the upstream answering the lookup with what it holds
GetNow ==
    get_record(adapter, Here, [resolve |-> "ok", lookup |-> "200", mutate |-> "ok"],
               last.rtype, last.host).r

\* C3: an adapter whose cache started empty and whose resolution never
\* failed has, after N >= 1 calls that need the identifier, sent exactly one
\* resolution request: the first call sent it, the others used the cache.
C3_OneResolution ==
    (adapter \in CacheAdapters /\ acc = None /\ idOps >= 1 /\ ~resolveFailed)
        => resolveReqs = 1

\* reached: a second call that needed the identifier and sent no resolution
C3_Witness ==
    /\ adapter \in CacheAdapters /\ acc = None /\ ~resolveFailed
    /\ idOps >= 2 /\ resolveReqs = 1
    /\ NrResolves(last.log) = 0

\* the adapters whose lookup asks the upstream for one name (and type)
QueryAdapters == {"Cloudflare", "DeSec", "DigitalOcean", "Porkbun", "DnSimple", "Gandi"}

\* C6: in the adapters that query by name, a lookup answered with two or
\* more records makes get_record return Err(UnexpectedRecord), not a value.
C6_TwoAnswersUnexpected ==
    (/\ last.op = "get_record"
     /\ adapter \in QueryAdapters
     /\ LookupSent(last.log) /\ last.a.lookup = "200"
     /\ Cardinality(Queried(adapter, last.zoneBefore, last.rtype, last.host)) >= 2)
        => last.r = Err("UnexpectedRecord")

\* reached: DigitalOcean's get_record found two A records at the host
C6_Witness ==
    /\ last.op = "get_record" /\ adapter = "DigitalOcean"
    /\ LookupSent(last.log) /\ last.a.lookup = "200"
    /\ Cardinality(Matching(last.zoneBefore, last.rtype, last.host)) = 2
    /\ last.r = Err("UnexpectedRecord")

\* C2: whatever the interleaving of the callers of get_zone_id /
\* get_domain_id, at most one resolution request goes out as long as no
\* resolution failed, and the mutex is held by the caller from its cache
\* check until it stored the result.
C2_SingleFlight ==
    /\ ~resolveFailed => resolveReqs <= 1
    /\ \A c \in Callers : pc[c] \in {"locked", "calling"} => holder = c

\* reached: every caller entered before any returned, all of them got the
\* identifier, one request was sent
C2_Witness ==
    /\ acc = None /\ opsDone = 0
    /\ \A c \in Callers : pc[c] = "done" /\ got[c] = UpstreamZoneId
    /\ resolveReqs = 1

\* C1: on a host with no record, once create_record(host, v1) returned Ok
\* get_record returns Some(v1); once update_record(host, v2) returned Ok on
\* that record get_record returns Some(v2); once delete_record(host)
\* returned Ok get_record returns None.
C1_RoundTrip ==
    /\ (/\ last.op = "create_record" /\ ~dry_run /\ last.r.tag = "Ok"
        /\ ByName(last.zoneBefore, last.host) = {})
           => GetNow = Ok(Some(last.value))
    /\ (/\ last.op = "update_record" /\ ~dry_run /\ last.r.tag = "Ok"
        /\ Cardinality(ByName(last.zoneBefore, last.host)) = 1
        /\ Matching(last.zoneBefore, last.rtype, last.host) # {})
           => GetNow = Ok(Some(last.value))
    /\ (/\ last.op = "delete_record" /\ ~dry_run /\ last.r.tag = "Ok"
        /\ Cardinality(ByName(last.zoneBefore, last.host)) = 1
        /\ Matching(last.zoneBefore, last.rtype, last.host) # {})
           => GetNow = Ok(None)

\* C4: with dry_run set, create_record, update_record and delete_record
\* return Ok(()) whatever the zone holds, send no mutating request and
\* leave the zone as it was.
C4_DryRun ==
    (/\ dry_run /\ last.op \in {"create_record", "update_record", "delete_record"}
     /\ Cooperative(last.a))
        => /\ last.r = Ok(Unit)
           /\ ~MutationSent(last.log)
           /\ zone = last.zoneBefore

\* C5: get_record for a host and type with no record upstream returns
\* Ok(None), whether the upstream says so with an empty list or with 404.
C5_AbsentIsNone ==
    (/\ last.op = "get_record" /\ Cooperative(last.a)
     /\ Matching(last.zoneBefore, last.rtype, last.host) = {})
        => last.r = Ok(None)

\* C7: in the adapters that fetch the whole zone, two or more records
\* matching host and type make get_record return Err(UnexpectedRecord).
C7_TwoMatchesUnexpected ==
    (/\ last.op = "get_record" /\ adapter \in {"Bunny", "Linode"}
     /\ LookupSent(last.log) /\ last.a.lookup = "200"
     /\ Cardinality(Matching(last.zoneBefore, last.rtype, last.host)) >= 2)
        => last.r = Err("UnexpectedRecord")

\* C8: update_record on a host with no matching record returns Ok(()),
\* leaving the zone as it was or with the record created.
C8_UpdateMissingOk ==
    (/\ last.op = "update_record" /\ Cooperative(last.a)
     /\ Matching(last.zoneBefore, last.rtype, last.host) = {})
        => /\ last.r = Ok(Unit)
           /\ \/ zone = last.zoneBefore
              \/ \E r \in zone :
                    /\ zone = last.zoneBefore \cup {r}
                    /\ r.host = last.host /\ r.rtype = last.rtype /\ r.value = last.value

\* C9: delete_record on a host with no matching record returns Ok(()) and
\* leaves the zone as it was (so a second delete succeeds like the first).
C9_DeleteMissingOk ==
    (/\ last.op = "delete_record" /\ Cooperative(last.a)
     /\ Matching(last.zoneBefore, last.rtype, last.host) = {})
        => /\ last.r = Ok(Unit)
           /\ zone = last.zoneBefore

\* C10: get_record, update_record and delete_record for (host, rtype) only
\* touch the record with that host and that type: every other record stays
\* as it was, is never the value returned, and is never counted as a match.
C10_OnlyMatching ==
    last.op \in {"get_record", "update_record", "delete_record"}
        => /\ \A r \in last.zoneBefore :
                 (r.host # last.host \/ r.rtype # last.rtype) => r \in zone
           /\ (last.op = "get_record" /\ last.r.tag = "Ok")
                 => last.r.v \subseteq
                       {r.value : r \in Matching(last.zoneBefore, last.rtype, last.host)}
           /\ last.r = Err("UnexpectedRecord")
                 => Cardinality(Matching(last.zoneBefore, last.rtype, last.host)) >= 2

NrMutations(log) ==
    Cardinality({i \in 1..Len(log) : log[i].k \in {"create", "update", "delete"}})

\* C11: when the upstream answers the mutating request of create_record,
\* update_record or delete_record with a non-success status, the call
\* returns Err, and the request was sent once (no retry).
C11_RejectedIsErr ==
    (/\ last.op \in {"create_record", "update_record", "delete_record"}
     /\ MutationSent(last.log) /\ last.a.mutate = "reject")
        => /\ last.r.tag = "Err"
           /\ NrMutations(last.log) = 1

-----------------------------------------------------------------------------
(* The HTTP client of src/http.rs, one response at a time.  A response is  *)
(* what request() hands back: whether the header built from the auth       *)
(* string was valid, whether the connection was made, the status, the      *)
(* body, and whether the body bytes are UTF-8 text.                        *)

Statuses == {200, 201, 204, 301, 400, 404, 418, 500}

Bodies == {"", "I'm a teapot", "{}"}

Responses == [auth : BOOLEAN, connected : BOOLEAN, status : Statuses,
              body : Bodies, utf8 : BOOLEAN]

\* serde_json::from_reader(body.reader()) into the expected type succeeds
Deserialises(res) == res.utf8 /\ res.body = "{}"

is_success(status) == status >= 200 /\ status < 300

HOk(v) == [tag |-> "Ok", v |-> v, e |-> "", msg |-> <<>>]

HErr(e, msg) == [tag |-> "Err", v |-> {}, e |-> e, msg |-> msg]

\* from_error whose message leaves the body out
from_error_status_only(res) ==
    IF ~res.utf8 THEN HErr("IoError", <<>>)
    ELSE HOk(<<"REST op failed: ", res.status>>)

\* Ok(Error::HttpError(format!("REST op failed: {code} {err:?}"))), or the
\* error of reading the body as a string
from_error(res) ==
    IF ~res.utf8 THEN HErr("IoError", <<>>)
    ELSE HOk(<<"REST op failed: ", res.status, res.body>>)

\* Err(from_error(res).await?)
ErrFrom(e) == IF e.tag = "Ok" THEN HErr("HttpError", e.v) ELSE e

\* get answering 404 like any other failure status
get_404_fails(res) ==
    IF ~res.auth THEN HErr("HttpError", <<"invalid header value">>)
    ELSE IF ~res.connected THEN HErr("IoError", <<>>)
    ELSE IF res.status = 200
         THEN IF Deserialises(res) THEN HOk(Some(res.body)) ELSE HErr("JsonError", <<>>)
    ELSE ErrFrom(from_error(res))

\* http::get -> get_with_headers
get(res) ==
    IF ~res.auth THEN HErr("HttpError", <<"invalid header value">>)
    ELSE IF ~res.connected THEN HErr("IoError", <<>>)
    ELSE IF res.status = 200
         THEN IF Deserialises(res) THEN HOk(Some(res.body)) ELSE HErr("JsonError", <<>>)
    ELSE IF res.status = 404 THEN HOk(None)
    ELSE ErrFrom(from_error(res))

\* http::put -> put_with_headers
put(res) ==
    IF ~res.auth THEN HErr("HttpError", <<"invalid header value">>)
    ELSE IF ~res.connected THEN HErr("IoError", <<>>)
    ELSE IF ~is_success(res.status) THEN ErrFrom(from_error(res))
    ELSE HOk(Unit)

\* http::post -> post_with_headers
post(res) ==
    IF ~res.auth THEN HErr("HttpError", <<"invalid header value">>)
    ELSE IF ~res.connected THEN HErr("IoError", <<>>)
    ELSE IF ~is_success(res.status) THEN ErrFrom(from_error(res))
    ELSE HOk(Unit)

\* http::patch -> patch_with_headers
patch(res) ==
    IF ~res.auth THEN HErr("HttpError", <<"invalid header value">>)
    ELSE IF ~res.connected THEN HErr("IoError", <<>>)
    ELSE IF ~is_success(res.status) THEN ErrFrom(from_error(res))
    ELSE HOk(Unit)

\* http::delete -> delete_with_headers
delete(res) ==
    IF ~res.auth THEN HErr("HttpError", <<"invalid header value">>)
    ELSE IF ~res.connected THEN HErr("IoError", <<>>)
    ELSE IF ~is_success(res.status) THEN ErrFrom(from_error(res))
    ELSE HOk(Unit)

\* no adapter at work: only helper functions are called
Quiet ==
    /\ adapter = "Bunny" /\ dry_run = FALSE /\ zone = {} /\ nextId = 1
    /\ acc = None /\ zone_id = None /\ poisoned = FALSE /\ last = NoCall
    /\ opsDone = 0 /\ idOps = 0 /\ resolveReqs = 0 /\ resolveFailed = FALSE
    /\ holder = 0
    /\ pc = [c \in Callers |-> "idle"]
    /\ got = [c \in Callers |-> "-"]
    /\ runtime = "none"
    /\ tasks = [c \in Callers |-> NoTask]

Still ==
    UNCHANGED <<adapter, dry_run, zone, nextId, acc, zone_id, poisoned, last, opsDone,
                idOps, resolveReqs, resolveFailed, holder, pc, got, runtime, tasks>>

InitHttp == Quiet /\ eval = NoEval

Get == \E res \in Responses : eval' = [f |-> "get", in |-> res, out |-> get(res)] /\ Still

Put == \E res \in Responses : eval' = [f |-> "put", in |-> res, out |-> put(res)] /\ Still

Post == \E res \in Responses : eval' = [f |-> "post", in |-> res, out |-> post(res)] /\ Still

Patch == \E res \in Responses : eval' = [f |-> "patch", in |-> res, out |-> patch(res)] /\ Still

Delete ==
    \E res \in Responses : eval' = [f |-> "delete", in |-> res, out |-> delete(res)] /\ Still

NextHttp == Get \/ Put \/ Post \/ Patch \/ Delete

SpecHttp == InitHttp /\ [][NextHttp]_vars

\* a GET that was sent and answered
Answered == eval.f = "get" /\ eval.in.auth /\ eval.in.connected

\* C12 as stated: 200 gives Ok(Some(parsed body)), 404 gives Ok(None),
\* every other status gives Err(ApiError) carrying the status and the body.
C12_StatusContract_ApiError ==
    (Answered /\ eval.in.utf8)
        => /\ (eval.in.status = 200 /\ Deserialises(eval.in))
                 => eval.out = HOk(Some(eval.in.body))
           /\ eval.in.status = 404 => eval.out = HOk(None)
           /\ eval.in.status \notin {200, 404}
                 => eval.out = HErr("ApiError",
                                    <<"REST op failed: ", eval.in.status, eval.in.body>>)

\* C12 (amended): the lookup helper gives Ok(Some(parsed body)) on 200,
\* Ok(None) on 404, and on every other status Err(HttpError) carrying the
\* status and the raw body.
C12_StatusContract ==
    (Answered /\ eval.in.utf8)
        => /\ (eval.in.status = 200 /\ Deserialises(eval.in))
                 => eval.out = HOk(Some(eval.in.body))
           /\ eval.in.status = 404 => eval.out = HOk(None)
           /\ eval.in.status \notin {200, 404}
                 => eval.out = HErr("HttpError",
                                    <<"REST op failed: ", eval.in.status, eval.in.body>>)

\* reached: a GET answered 404 with a body gave Ok(None)
C12_Witness ==
    /\ Answered /\ eval.in.status = 404 /\ eval.in.body = "I'm a teapot"
    /\ eval.out = HOk(None)

\* C13: a GET answered with a status other than 200 and 404 never returns
\* Ok; when the body is text it returns Err(HttpError) whose message holds
\* the status and the body.
C13_OtherStatusIsHttpError ==
    (Answered /\ eval.in.status \notin {200, 404})
        => /\ eval.out.tag = "Err"
           /\ eval.in.utf8
                 => /\ eval.out.e = "HttpError"
                    /\ Len(eval.out.msg) >= 3
                    /\ eval.out.msg[2] = eval.in.status
                    /\ eval.out.msg[3] = eval.in.body

\* reached: the 418 of test_get_418
C13_Witness ==
    /\ Answered /\ eval.in.status = 418 /\ eval.in.body = "I'm a teapot"
    /\ eval.in.utf8
    /\ eval.out = HErr("HttpError", <<"REST op failed: ", 418, "I'm a teapot">>)

-----------------------------------------------------------------------------
(* The quoting normaliser of src/lib.rs.  A string is a sequence of chars; *)
(* a char takes one byte in UTF-8 except "U+00E9" (e acute), which takes   *)
(* two, so that str::len (bytes) and chars().count() can differ.           *)

MaxLen == 3

DQ == "\""

Chars == {DQ, "a", " ", "U+00E9"}

Strings == UNION {[1..n -> Chars] : n \in 0..MaxLen}

len_utf8(c) == IF c = "U+00E9" THEN 2 ELSE 1

\* str::len: the length in bytes
RECURSIVE len(_)
len(s) == IF s = <<>> THEN 0 ELSE len_utf8(Head(s)) + len(Tail(s))

starts_with(s, c) == Len(s) > 0 /\ s[1] = c

ends_with(s, c) == Len(s) > 0 /\ s[Len(s)] = c

\* Iterator::skip(n) and Iterator::take(n) on the chars of a string
skip(s, n) == SubSeq(s, n + 1, Len(s))

take(s, n) == SubSeq(s, 1, IF n < Len(s) THEN n ELSE Len(s))

\* ensure_quotes wrapping whatever it is given
ensure_quotes_wrapping(record) == <<DQ>> \o record \o <<DQ>>

\* ensure_quotes putting the missing quote at the wrong end
ensure_quotes_wrong_end(record) ==
    LET starts == starts_with(record, DQ)
        ends == ends_with(record, DQ)
    IN  CASE starts /\ ends   -> record
          [] starts /\ ~ends  -> <<DQ>> \o record
          [] ~starts /\ ends  -> record \o <<DQ>>
          [] OTHER            -> <<DQ>> \o record \o <<DQ>>

ensure_quotes(record) ==
    LET starts == starts_with(record, DQ)
        ends == ends_with(record, DQ)
    IN  CASE starts /\ ends   -> record
          [] starts /\ ~ends  -> record \o <<DQ>>
          [] ~starts /\ ends  -> <<DQ>> \o record
          [] OTHER            -> <<DQ>> \o record \o <<DQ>>

\* first is the first char, last the last of the chars after it
strip_quotes(record) ==
    LET first == IF Len(record) > 0 THEN {record[1]} ELSE {}
        last_ == IF Len(record) > 1 THEN {record[Len(record)]} ELSE {}
    IN  IF first = {DQ} /\ last_ = {DQ}
        THEN take(skip(record, 1), len(record) - 2)
        ELSE record

InitQuote == Quiet /\ eval = NoEval

EnsureQuotes ==
    \E s \in Strings :
        eval' = [f |-> "ensure_quotes", in |-> s, out |-> ensure_quotes(s)] /\ Still

StripQuotes ==
    \E s \in Strings :
        eval' = [f |-> "strip_quotes", in |-> s, out |-> strip_quotes(s)] /\ Still

NextQuote == EnsureQuotes \/ StripQuotes

SpecQuote == InitQuote /\ [][NextQuote]_vars

\* C14: for a string that neither starts nor ends with a double quote
\* (the empty string and strings with multi-byte chars included),
\* strip_quotes gives back what ensure_quotes was given.
C14_StripEnsure ==
    (/\ eval.f = "ensure_quotes"
     /\ ~starts_with(eval.in, DQ) /\ ~ends_with(eval.in, DQ))
        => strip_quotes(eval.out) = eval.in

\* C15: ensure_quotes is idempotent: applied to its own result it changes
\* nothing.
C15_EnsureIdempotent ==
    eval.f = "ensure_quotes" => ensure_quotes(eval.out) = eval.out

\* reached: a lone double quote, and a string with a quote inside
C15_Witness ==
    /\ eval.f = "ensure_quotes"
    /\ eval.in \in {<<DQ>>, <<"a", DQ, "a">>}
    /\ ensure_quotes(eval.out) = eval.out

\* C16: ensure_quotes returns its argument when both ends are quoted, adds
\* the closing quote when only the start is, the opening quote when only
\* the end is, and both when neither is; nothing else changes.
C16_EnsureCases ==
    eval.f = "ensure_quotes" =>
        LET s == eval.in
            n == Len(s)
            atStart == n > 0 /\ Head(s) = DQ
            atEnd == n > 0 /\ s[n] = DQ
        IN  /\ (atStart /\ atEnd) => eval.out = s
            /\ (atStart /\ ~atEnd) => eval.out = Append(s, DQ)
            /\ (~atStart /\ atEnd) => eval.out = <<DQ>> \o s
            /\ (~atStart /\ ~atEnd) => eval.out = <<DQ>> \o Append(s, DQ)

\* reached: only the end quoted, with a space and a quote inside
C16_Witness ==
    /\ eval.f = "ensure_quotes"
    /\ eval.in = <<" ", DQ, DQ>>
    /\ eval.out = <<DQ, " ", DQ, DQ>>

\* C17: strip_quotes returns the string without its first and last char
\* when it has two or more chars and both ends are double quotes, and the
\* string itself in every other case.
C17_StripInterior ==
    eval.f = "strip_quotes" =>
        LET s == eval.in
            n == Len(s)
        IN  IF n >= 2 /\ s[1] = DQ /\ s[n] = DQ
            THEN eval.out = SubSeq(s, 2, n - 1)
            ELSE eval.out = s

-----------------------------------------------------------------------------
(* The TXT and A helpers: generate_helpers in src/lib.rs for the blocking  *)
(* adapters, async_provider_impl in src/async_impl/mod.rs for the async    *)
(* ones.  Record values are strings of chars here, so that quotes show.    *)

\* .map(|opt| opt.map(|s| strip_quotes(&s)))
map_strip_quotes(g) ==
    IF g.r.tag = "Ok" THEN [s |-> g.s, r |-> Ok({strip_quotes(v) : v \in g.r.v})] ELSE g

get_txt_record(p, s, a, host) == map_strip_quotes(get_record(p, s, a, "TXT", host))

create_txt_record(p, s, a, host, record) ==
    create_record(p, s, a, "TXT", host, ensure_quotes(record))

update_txt_record(p, s, a, host, record) ==
    update_record(p, s, a, "TXT", host, ensure_quotes(record))

\* a delete_txt_record that looks the record up before deleting it
delete_txt_record_checked(p, s, a, host) ==
    Try(get_record(p, s, a, "TXT", host), LAMBDA g : delete_record(p, g.s, a, "TXT", host))

delete_txt_record(p, s, a, host) == delete_record(p, s, a, "TXT", host)

get_a_record(p, s, a, host) == get_record(p, s, a, "A", host)

create_a_record(p, s, a, host, record) == create_record(p, s, a, "A", host, record)

update_a_record(p, s, a, host, record) == update_record(p, s, a, "A", host, record)

delete_a_record(p, s, a, host) == delete_record(p, s, a, "A", host)

\* the texts and the address the callers pass: empty, plain, with a
\* two-byte char, already quoted
Texts == {<<>>, <<"a">>, <<"U+00E9">>, <<DQ, "a", DQ>>}

Addrs == {<<"a">>}

InitTxt == Init /\ ~dry_run /\ zone = {}

GetTxtRecord ==
    /\ opsDone < MaxOps
    /\ \E host \in Hosts : \E a \in AnswersFor(adapter, "TXT", host, FALSE) :
          Finish("get_txt_record", "TXT", host, <<>>, a,
                 get_txt_record(adapter, Here, a, host))

CreateTxtRecord ==
    /\ opsDone < MaxOps
    /\ \E host \in Hosts, t \in Texts : \E a \in AnswersFor(adapter, "TXT", host, TRUE) :
          Finish("create_txt_record", "TXT", host, t, a,
                 create_txt_record(adapter, Here, a, host, t))

UpdateTxtRecord ==
    /\ opsDone < MaxOps
    /\ \E host \in Hosts, t \in Texts : \E a \in AnswersFor(adapter, "TXT", host, TRUE) :
          Finish("update_txt_record", "TXT", host, t, a,
                 update_txt_record(adapter, Here, a, host, t))

DeleteTxtRecord ==
    /\ opsDone < MaxOps
    /\ \E host \in Hosts : \E a \in AnswersFor(adapter, "TXT", host, TRUE) :
          Finish("delete_txt_record", "TXT", host, <<>>, a,
                 delete_txt_record(adapter, Here, a, host))

GetARecord ==
    /\ opsDone < MaxOps
    /\ \E host \in Hosts : \E a \in AnswersFor(adapter, "A", host, FALSE) :
          Finish("get_a_record", "A", host, <<>>, a,
                 get_a_record(adapter, Here, a, host))

CreateARecord ==
    /\ opsDone < MaxOps
    /\ \E host \in Hosts, ip \in Addrs : \E a \in AnswersFor(adapter, "A", host, TRUE) :
          Finish("create_a_record", "A", host, ip, a,
                 create_a_record(adapter, Here, a, host, ip))

UpdateARecord ==
    /\ opsDone < MaxOps
    /\ \E host \in Hosts, ip \in Addrs : \E a \in AnswersFor(adapter, "A", host, TRUE) :
          Finish("update_a_record", "A", host, ip, a,
                 update_a_record(adapter, Here, a, host, ip))

DeleteARecord ==
    /\ opsDone < MaxOps
    /\ \E host \in Hosts : \E a \in AnswersFor(adapter, "A", host, TRUE) :
          Finish("delete_a_record", "A", host, <<>>, a,
                 delete_a_record(adapter, Here, a, host))

\* the generic primitives called with a text, as test_create_update_delete_txt does
GetRecordTxt ==
    /\ opsDone < MaxOps
    /\ \E host \in Hosts : \E a \in AnswersFor(adapter, "TXT", host, FALSE) :
          Finish("get_record", "TXT", host, <<>>, a,
                 get_record(adapter, Here, a, "TXT", host))

\* a create_record that quotes the text it is given
CreateRecordTxt_quoting ==
    /\ opsDone < MaxOps
    /\ \E host \in Hosts, t \in Texts : \E a \in AnswersFor(adapter, "TXT", host, TRUE) :
          Finish("create_record", "TXT", host, t, a,
                 create_record(adapter, Here, a, "TXT", host, ensure_quotes(t)))

CreateRecordTxt ==
    /\ opsDone < MaxOps
    /\ \E host \in Hosts, t \in Texts : \E a \in AnswersFor(adapter, "TXT", host, TRUE) :
          Finish("create_record", "TXT", host, t, a,
                 create_record(adapter, Here, a, "TXT", host, t))

UpdateRecordTxt ==
    /\ opsDone < MaxOps
    /\ \E host \in Hosts, t \in Texts : \E a \in AnswersFor(adapter, "TXT", host, TRUE) :
          Finish("update_record", "TXT", host, t, a,
                 update_record(adapter, Here, a, "TXT", host, t))

NextTxt ==
    \/ GetTxtRecord \/ CreateTxtRecord \/ UpdateTxtRecord \/ DeleteTxtRecord
    \/ GetARecord \/ CreateARecord \/ UpdateARecord \/ DeleteARecord
    \/ GetRecordTxt \/ CreateRecordTxt \/ UpdateRecordTxt

SpecTxt == InitTxt /\ [][NextTxt]_vars

-----------------------------------------------------------------------------
(* Properties of the TXT and A helpers                                     *)

Unquoted(t) == ~starts_with(t, DQ) /\ ~ends_with(t, DQ)

\* what get_txt_record returns in the current state for the host of the
\* last call, the upstream answering the lookup with what it holds
GetTxtNow ==
    get_txt_record(adapter, Here, [resolve |-> "ok", lookup |-> "200", mutate |-> "ok"],
                   last.host).r

\* C18: for every adapter and every text t without a leading or trailing
\* quote, create_txt_record and update_txt_record store ensure_quotes(t)
\* upstream, a following get_txt_record returns Some(t), and after
\* delete_txt_record it returns None (the upstream accepting every request,
\* the host holding no record before a create and exactly one TXT record
\* before an update or a delete).
C18_TxtRoundTrip ==
    /\ (/\ last.op \in {"create_txt_record", "update_txt_record"}
        /\ Cooperative(last.a) /\ last.r.tag = "Ok" /\ Unquoted(last.value)
        /\ (last.op = "create_txt_record" => ByName(last.zoneBefore, last.host) = {})
        /\ (last.op = "update_txt_record" =>
               /\ Cardinality(ByName(last.zoneBefore, last.host)) = 1
               /\ Matching(last.zoneBefore, "TXT", last.host) # {}))
           => /\ \A rec \in Matching(zone, "TXT", last.host) :
                    rec.value = ensure_quotes(last.value)
              /\ Matching(zone, "TXT", last.host) # {}
              /\ GetTxtNow = Ok(Some(last.value))
    /\ (/\ last.op = "delete_txt_record"
        /\ Cooperative(last.a) /\ last.r.tag = "Ok"
        /\ Cardinality(ByName(last.zoneBefore, last.host)) = 1
        /\ Matching(last.zoneBefore, "TXT", last.host) # {})
           => GetTxtNow = Ok(None)


\* C19: the generic primitives never add or remove quotes: every create or
\* update request that create_record or update_record sends for a TXT
\* record carries exactly the value it was given, the upstream record
\* written by an accepted request holds exactly that value, and
\* get_record returns exactly the string of a record the upstream holds.
C19_PrimitivesVerbatim ==
    /\ (last.op \in {"create_record", "update_record"} /\ last.rtype = "TXT")
          => /\ \A i \in 1..Len(last.log) :
                   last.log[i].k \in {"create", "update"}
                      => last.log[i].value = last.value
             /\ \A rec \in zone \ last.zoneBefore : rec.value = last.value
    /\ (last.op = "get_record" /\ last.rtype = "TXT" /\ last.r.tag = "Ok")
          => \A v \in last.r.v :
                \E rec \in ByName(last.zoneBefore, last.host) : rec.value = v

\* an unquoted text was created verbatim and a quoted one read back verbatim
C19_Witness ==
    \/ /\ last.op = "create_record" /\ last.value = <<"a">> /\ last.r.tag = "Ok"
       /\ \E i \in 1..Len(last.log) :
             last.log[i].k = "create" /\ last.log[i].value = <<"a">>
       /\ \E rec \in zone \ last.zoneBefore : rec.rtype = "TXT" /\ rec.value = <<"a">>
    \/ /\ last.op = "get_record" /\ last.r = Ok(Some(<<DQ, "a", DQ>>))


\* the step just taken returned, sent and changed what the call `out` does
SameCall(out) ==
    /\ last'.r = out.r
    /\ last'.log = out.s.log
    /\ zone' = out.s.zone
    /\ zone_id' = out.s.zone_id

-----------------------------------------------------------------------------
(* The async bridge: src/async_impl.  An async adapter holds an Arc of the *)
(* synchronous one; each operation clones the Arc and its arguments into a *)
(* closure and hands it to blocking::unblock, whose worker threads run it. *)
(* The executor polling the future is the caller's (tokio or smol).        *)

Runtimes == {"tokio", "smol"}

AsyncOps == {"get_record", "create_record", "update_record", "delete_record"}

AsyncHosts == {"h1"}

AsyncRTypes == {"A"}

\* a closure that calls the operation a second time after the first succeeded
closure_twice(t, p, s, a) ==
    CASE t.op = "get_record"    ->
            Try(get_record(p, s, a, t.rtype, t.host),
                LAMBDA u : get_record(p, u.s, a, t.rtype, t.host))
      [] t.op = "create_record" ->
            Try(create_record(p, s, a, t.rtype, t.host, t.value),
                LAMBDA u : create_record(p, u.s, a, t.rtype, t.host, t.value))
      [] t.op = "update_record" ->
            Try(update_record(p, s, a, t.rtype, t.host, t.value),
                LAMBDA u : update_record(p, u.s, a, t.rtype, t.host, t.value))
      [] t.op = "delete_record" ->
            Try(delete_record(p, s, a, t.rtype, t.host),
                LAMBDA u : delete_record(p, u.s, a, t.rtype, t.host))

\* the closure of the operation's arm of the macro, run on the shared adapter
closure(t, p, s, a) ==
    CASE t.op = "get_record"    -> get_record(p, s, a, t.rtype, t.host)
      [] t.op = "create_record" -> create_record(p, s, a, t.rtype, t.host, t.value)
      [] t.op = "update_record" -> update_record(p, s, a, t.rtype, t.host, t.value)
      [] t.op = "delete_record" -> delete_record(p, s, a, t.rtype, t.host)

\* the task awaiting the bridge; it issues its operations one at a time
AsyncCallers == {1}

\* no closure in the pool; n more results were dropped unread
Idle(t, n) == [NoTask EXCEPT !.lost = t.lost + n]

InFlight == {c \in AsyncCallers : tasks[c].st \in {"queued", "running"}}

InitAsync ==
    /\ adapter \in Adapters
    /\ dry_run = FALSE
    /\ zone \in {{}, {Rec(1, "h1", "A", "v1")}}
    /\ nextId = Cardinality(zone) + 1
    /\ acc = None
    /\ zone_id = acc
    /\ poisoned = FALSE
    /\ last = NoCall
    /\ opsDone = 0
    /\ idOps = 0
    /\ resolveReqs = 0
    /\ resolveFailed = FALSE
    /\ holder = 0
    /\ pc = [c \in Callers |-> "idle"]
    /\ got = [c \in Callers |-> None]
    /\ eval = NoEval
    /\ runtime \in Runtimes
    /\ tasks = [c \in Callers |-> NoTask]

AsyncStill ==
    UNCHANGED <<adapter, dry_run, zone, nextId, acc, zone_id, poisoned, last, opsDone,
                idOps, resolveReqs, resolveFailed, holder, pc, eval, runtime>>

\* the first poll of the operation's future: unblock(move || provider.op(..))
Unblock(c) ==
    /\ tasks[c].st = "none"
    /\ opsDone + Cardinality(InFlight) < MaxOps
    /\ \E op \in AsyncOps, rtype \in AsyncRTypes, host \in AsyncHosts, value \in Values :
          /\ (op \in {"get_record", "delete_record"} => value = "v1")
          /\ tasks' = [tasks EXCEPT ![c] =
                 [st |-> "queued", op |-> op, rtype |-> rtype, host |-> host,
                  value |-> IF op \in {"get_record", "delete_record"} THEN "-" ELSE value,
                  by |-> "blocking::unblock", held |-> TRUE, runs |-> 0,
                  r |-> Ok(Unit), lost |-> tasks[c].lost]]
    /\ got' = [got EXCEPT ![c] = None]
    /\ AsyncStill

\* a worker thread of the pool takes the closure; a closure whose future
\* was dropped before any worker took it may be skipped by the pool
WorkerTake(c) ==
    /\ tasks[c].st = "queued"
    /\ \/ tasks' = [tasks EXCEPT ![c].st = "running"]
       \/ ~tasks[c].held /\ tasks' = [tasks EXCEPT ![c] = Idle(@, 0)]
    /\ UNCHANGED got
    /\ AsyncStill

\* the worker runs the synchronous operation to its end
WorkerRun(c) ==
    /\ tasks[c].st = "running"
    /\ \E a \in AnswersFor(adapter, tasks[c].rtype, tasks[c].host,
                           tasks[c].op # "get_record") :
          Complete(tasks[c].op, tasks[c].rtype, tasks[c].host, tasks[c].value, a,
                   closure(tasks[c], adapter, Here, a))
    /\ tasks' = [tasks EXCEPT ![c].st = IF tasks[c].held THEN "done" ELSE "discarded",
                              ![c].runs = @ + 1,
                              ![c].r = last'.r]

\* the awaiting caller receives the closure's result
Await(c) ==
    /\ tasks[c].st = "done" /\ tasks[c].held
    /\ got' = [got EXCEPT ![c] = Some(tasks[c].r)]
    /\ tasks' = [tasks EXCEPT ![c] = Idle(@, 0)]
    /\ AsyncStill

\* a drop that takes the closure away from the worker running it
DropFuture_aborting(c) ==
    /\ tasks[c].st \in {"queued", "running", "done"} /\ tasks[c].held
    /\ tasks' = [tasks EXCEPT ![c] =
                    IF tasks[c].st = "queued" THEN [@ EXCEPT !.held = FALSE] ELSE Idle(@, 1)]
    /\ UNCHANGED got
    /\ AsyncStill

\* the caller drops the future it was awaiting
DropFuture(c) ==
    /\ tasks[c].st \in {"queued", "running", "done"} /\ tasks[c].held
    /\ tasks' = [tasks EXCEPT ![c] =
                    IF tasks[c].st = "done" THEN Idle(@, 1) ELSE [@ EXCEPT !.held = FALSE]]
    /\ UNCHANGED got
    /\ AsyncStill

\* the pool forgets a finished closure nobody waits for
Discard(c) ==
    /\ tasks[c].st = "discarded"
    /\ tasks' = [tasks EXCEPT ![c] = Idle(@, 1)]
    /\ UNCHANGED got
    /\ AsyncStill

NextAsync ==
    \E c \in AsyncCallers :
        \/ Unblock(c) \/ WorkerTake(c) \/ WorkerRun(c)
        \/ Await(c) \/ DropFuture(c) \/ Discard(c)

SpecAsync == InitAsync /\ [][NextAsync]_vars

-----------------------------------------------------------------------------
(* Properties of the async bridge                                          *)

\* the worker finished the closure of caller c in this step
Ran(c) == tasks[c].st = "running" /\ tasks'[c].st \in {"done", "discarded"}

CanRun(c) ==
    \E a \in AnswersFor(adapter, tasks[c].rtype, tasks[c].host,
                        tasks[c].op # "get_record") :
        /\ closure(tasks[c], adapter, Here, a).s.nextId <= MaxId + 1
        /\ Consumed(a, closure(tasks[c], adapter, Here, a).s.log)

-----------------------------------------------------------------------------
(* Properties of the identifier cache and of record addressing (Spec)      *)

ResolveSent(log) == \E i \in 1..Len(log) : log[i].k = "resolve"

GetIdNow(a) ==
    CASE adapter = "Bunny"      -> Bunny_get_zone_id(Here, a)
      [] adapter = "Cloudflare" -> Cloudflare_get_zone_id(Here, a)
      [] adapter = "Linode"     -> Linode_get_domain_id(Here, a)
      [] adapter = "DnSimple"   -> DnSimple_get_id(Here, a)

IdAnswers == [resolve : ResolveAnswers, lookup : {"200"}, mutate : {"ok"}]

IdAdapters == {"Bunny", "Cloudflare", "DigitalOcean", "DnSimple", "Linode", "Porkbun"}

-----------------------------------------------------------------------------
(* Bunny's integer record types (src/bunny/types.rs)                       *)

RecordTypes == {"A", "AAAA", "CAA", "CNAME", "MX", "NS", "PTR", "SRV", "TXT",
                "SVCB", "HTTPS"}

\* a decoder that takes an unknown code for an A record
RecordType_try_from_defaulting(value) ==
    CASE value = 0  -> Ok("A")
      [] value = 1  -> Ok("AAAA")
      [] value = 2  -> Ok("CNAME")
      [] value = 3  -> Ok("TXT")
      [] value = 4  -> Ok("MX")
      [] value = 8  -> Ok("SRV")
      [] value = 9  -> Ok("CAA")
      [] value = 10 -> Ok("PTR")
      [] value = 12 -> Ok("NS")
      [] value = 13 -> Ok("SVCB")
      [] value = 14 -> Ok("HTTPS")
      [] OTHER      -> Ok("A")

\* impl TryFrom<u64> for RecordType
RecordType_try_from(value) ==
    CASE value = 0  -> Ok("A")
      [] value = 1  -> Ok("AAAA")
      [] value = 2  -> Ok("CNAME")
      [] value = 3  -> Ok("TXT")
      [] value = 4  -> Ok("MX")
      [] value = 8  -> Ok("SRV")
      [] value = 9  -> Ok("CAA")
      [] value = 10 -> Ok("PTR")
      [] value = 12 -> Ok("NS")
      [] value = 13 -> Ok("SVCB")
      [] value = 14 -> Ok("HTTPS")
      [] OTHER      -> Err("ApiError")

\* impl From<RecordType> for u64
u64_from(value) ==
    CASE value = "A"     -> 0
      [] value = "AAAA"  -> 1
      [] value = "CNAME" -> 2
      [] value = "TXT"   -> 3
      [] value = "MX"    -> 4
      [] value = "SRV"   -> 8
      [] value = "CAA"   -> 9
      [] value = "PTR"   -> 10
      [] value = "NS"    -> 12
      [] value = "SVCB"  -> 13
      [] value = "HTTPS" -> 14

\* de_recordtype: u64::deserialize, then try_from
de_recordtype(v) == RecordType_try_from(v)

\* ser_recordtype: u64::from(*rt), then serialize
ser_recordtype(rt) == u64_from(rt)

InitCode == Quiet /\ eval = NoEval

Deserialize ==
    \E v \in 0..MaxCode :
        eval' = [f |-> "de_recordtype", in |-> v, out |-> de_recordtype(v)] /\ Still

Serialize ==
    \E rt \in RecordTypes :
        eval' = [f |-> "ser_recordtype", in |-> rt, out |-> ser_recordtype(rt)] /\ Still

NextCode == Deserialize \/ Serialize

SpecCode == InitCode /\ [][NextCode]_vars

\* the codes Bunny assigns to the types the crate knows
AssignedCodes == {0, 1, 2, 3, 4, 8, 9, 10, 12, 13, 14}

\* C26: Bunny's integer encoding of the record type is total, injective
\* and invertible: every one of the 11 types has a code, decoding that code
\* gives the type back, no two types share a code; decoding an integer that
\* is not one of the 11 assigned codes (5, 6, 7, 11, everything from 15 on)
\* gives Err and never a type.
C26_CodeRoundTrip ==
    /\ Cardinality(RecordTypes) = 11
    /\ eval.f = "ser_recordtype" =>
          /\ eval.out \in AssignedCodes
          /\ de_recordtype(eval.out) = Ok(eval.in)
          /\ \A rt \in RecordTypes \ {eval.in} : ser_recordtype(rt) # eval.out
    /\ eval.f = "de_recordtype" =>
          IF eval.in \in AssignedCodes
          THEN /\ eval.out.tag = "Ok"
               /\ ser_recordtype(eval.out.v) = eval.in
          ELSE eval.out.tag = "Err" /\ eval.out.e = "ApiError"

\* the unassigned code 11 (Script) was decoded and refused
C26_Witness ==
    eval.f = "de_recordtype" /\ eval.in = 11 /\ eval.out.tag = "Err"


\* adapters that keep the identifier behind a std::sync::Mutex
StdMutexAdapters == {"Bunny", "Cloudflare", "Linode"}

\* the adapter as it is, its cache mutex poisoned
PoisonedHere == [Here EXCEPT !.poisoned = TRUE]

\* an upstream that would accept everything and one that would refuse everything
TwoAnswers == {[resolve |-> "ok", lookup |-> "200", mutate |-> "ok"],
               [resolve |-> "error", lookup |-> "500", mutate |-> "reject"]}

\* the call returned LockingError, sent nothing and changed nothing
Refused(out) == out.r = Err("LockingError") /\ out.s = PoisonedHere

\* C27: with the identifier-cache mutex poisoned, every operation that
\* needs the identifier returns Err(LockingError) without panicking and
\* without sending a request: the operation that follows a panic under
\* the lock does, and so would each of the four operations in any state of
\* the adapter if its mutex were poisoned.
C27_PoisonedIsLockingError ==
    /\ (poisoned /\ last.r.tag # "Panic")
          => (last.r = Err("LockingError") /\ last.log = <<>>
              /\ zone = last.zoneBefore)
    /\ adapter \in StdMutexAdapters =>
          \A a \in TwoAnswers, rtype \in RTypes :
             /\ Refused(get_record(adapter, PoisonedHere, a, rtype, "h1"))
             /\ Refused(create_record(adapter, PoisonedHere, a, rtype, "h1", "v1"))
             /\ Refused(update_record(adapter, PoisonedHere, a, rtype, "h1", "v1"))
             /\ Refused(delete_record(adapter, PoisonedHere, a, rtype, "h1"))

\* the operation after the one that panicked under the lock was refused
C27_Witness ==
    /\ adapter = "Cloudflare" /\ poisoned /\ opsDone = 2
    /\ last.r = Err("LockingError") /\ last.log = <<>>


\* the offload call native to each runtime the crate's tests run under:
\* tokio's thread pool, smol's unblock (which is blocking::unblock)
OffloadOf(rt) ==
    IF rt = "tokio" THEN "tokio::task::spawn_blocking" ELSE "blocking::unblock"

\* C28: the bridge's mechanism for offloading the blocking operation is the
\* one of the runtime selected when the adapter was constructed, not one
\* fixed in the bridge code: every closure handed over went to the
\* offload call of the runtime the adapter was built for.
C28_OffloadSelected ==
    \A c \in AsyncCallers :
        tasks[c].st # "none" => tasks[c].by = OffloadOf(runtime)


\* at most one record per host and type
UniquePerHostType(z) ==
    \A r1, r2 \in z : (r1.host = r2.host /\ r1.rtype = r2.rtype) => r1 = r2

\* C29: starting from a zone with at most one record per (host, rtype),
\* after any create_record, update_record or delete_record (create_record
\* on a host that has the record already, and update_record falling back
\* to create, included) the upstream zone still holds at most one record
\* per (host, rtype).
C29_OnePerHostType ==
    (last.op \in {"create_record", "update_record", "delete_record"}
     /\ UniquePerHostType(last.zoneBefore))
        => UniquePerHostType(zone)


\* C30: when the upstream identifier resolution fails, the operation
\* returns that error, the cache stays empty and the mutex is released
\* unpoisoned; with an empty cache the next get_zone_id / get_domain_id /
\* get_id sends a new resolution request, and with a filled cache it sends
\* none.
C30_FailedResolutionRetried ==
    adapter \in CacheAdapters =>
       /\ (ResolveSent(last.log) /\ last.a.resolve # "ok")
             => (last.r.tag = "Err" /\ zone_id = None /\ ~poisoned)
       /\ zone_id = None
             => \A a \in IdAnswers : GetIdNow(a).s.log = <<ResolveReq>>
       /\ zone_id # None
             => \A a \in IdAnswers : GetIdNow(a).s.log = <<>>

-----------------------------------------------------------------------------
(* Failures inside update_record and delete_record (Spec)                  *)

\* adapters whose update_record and delete_record look the record up first
LookupAdapters == {"Bunny", "Cloudflare", "DigitalOcean", "DnSimple", "Linode", "Porkbun"}

\* get_upstream_record of the adapter instance p: the lookup step of
\* update_record and delete_record (get_record_id passes its error on)
get_upstream_record(p, s, a, rtype, host) ==
    CASE p = "Bunny"        -> Bunny_get_upstream_record(s, a, rtype, host)
      [] p = "Cloudflare"   -> Cloudflare_get_upstream_record(s, a, rtype, host)
      [] p = "DigitalOcean" -> DigitalOcean_get_upstream_record(s, a, rtype, host)
      [] p = "DnSimple"     -> DnSimple_get_upstream_record(s, a, rtype, host)
      [] p = "Linode"       -> Linode_get_upstream_record(s, a, rtype, host)
      [] OTHER              -> Porkbun_get_upstream_record(s, a, rtype, host)

\* the adapter and the upstream as the last operation found them
Before == [Here EXCEPT !.zone = last.zoneBefore, !.zone_id = last.idBefore,
                       !.poisoned = last.poisonedBefore]

\* update_record / delete_record passed the error of its lookup lk on
Surfaced(lk) ==
    lk.r.tag = "Err" => /\ last.r = lk.r
                        /\ ~MutationSent(last.log)
                        /\ zone = last.zoneBefore

\* C31: when the lookup step of update_record or delete_record returns Err
\* (the identifier was not resolved, the lookup request failed, or several
\* records matched), the operation returns that very error, sends no
\* mutating request and leaves the upstream zone as it was.  The lookup is
\* run on the state the operation started from, with the answers it got.
C31_LookupErrSurfaced ==
    (last.op \in {"update_record", "delete_record"} /\ adapter \in LookupAdapters)
        => Surfaced(get_upstream_record(adapter, Before, last.a, last.rtype, last.host))

\* reached: a lookup that found two records ended a delete with
\* UnexpectedRecord and the zone untouched
C31_Witness ==
    /\ last.op = "delete_record" /\ ~dry_run
    /\ adapter \in LookupAdapters
    /\ Cardinality(Matching(last.zoneBefore, last.rtype, last.host)) = 2
    /\ last.r = Err("UnexpectedRecord")
    /\ LookupSent(last.log) /\ ~MutationSent(last.log)
    /\ zone = last.zoneBefore

-----------------------------------------------------------------------------
(* Concurrent update_record calls on one adapter, request by request.      *)
(* Every caller runs update_record(A, h1, its value) through the adapter's  *)
(* program: "id" is a call of get_zone_id / get_domain_id / get_id (take    *)
(* the mutex, look at the cache, resolve upstream under the guard, release),*)
(* "lookup" the request of get_upstream_record, "mutate" the PUT / POST /   *)
(* PATCH that writes the record.  The upstream serves one request at a     *)
(* time; between two requests of one caller the others may run.            *)

ParRType == "A"

ParHost == "h1"

\* the value caller c writes
ValueOf(c) == IF c % 2 = 1 THEN "v1" ELSE "v2"

\* the zones the callers find: no record, the record, the record next to
\* one of another type at the same host
ParZones ==
    { {},
      {Rec(1, "h1", "A", "v0")},
      {Rec(1, "h1", "A", "v0"), Rec(2, "h1", "TXT", "v0")} }

\* the order in which update_record takes the identifier and sends its
\* requests
Program(p) ==
    CASE p \in {"Bunny", "Cloudflare", "DnSimple"} -> <<"id", "lookup", "id", "mutate">>
      [] p = "Linode"                              -> <<"id", "id", "lookup", "mutate">>
      [] p \in {"DigitalOcean", "Porkbun"}         -> <<"lookup", "mutate">>
      [] OTHER                                     -> <<"mutate">>

\* the mutating request of update_record once the record id is known (id 0:
\* the adapter addresses by host and type, or Porkbun found no record and
\* creates one)
send_update(p, s, a, id, rtype, host, value) ==
    CASE p = "DeSec"              -> DeSec_update_record(s, a, rtype, host, value)
      [] p = "Gandi"              -> Gandi_update_record(s, a, rtype, host, value)
      [] p = "Porkbun" /\ id = 0  -> Porkbun_create_record(s, a, rtype, host, value)
      [] OTHER ->
           IF s.dry_run THEN [s |-> s, r |-> Ok(Unit)]
           ELSE LET s1 == Sent(s, Req("update", id, host, FALSE, rtype, value))
                IN  [s |-> Applied(a, s1, IF p = "DnSimple" THEN UpSetValue(s1, id, value)
                                          ELSE UpReplace(s1, id, host, rtype, value)),
                     r |-> IF p \in {"Bunny", "Cloudflare"} THEN Ok(Unit)
                           ELSE IF p = "DnSimple" THEN http_mutate(a.mutate)
                           ELSE check_error(a.mutate)]

\* a caller that has not called: step, record id found, result, and whether
\* every answer it got was a cooperative one
NoOp == [i |-> 0, id |-> 0, r |-> Ok(Unit), coop |-> TRUE]

\* the step caller c is about to take
At(c) == IF pc[c] = "ready" THEN Program(adapter)[got[c].i] ELSE "-"

InitPar ==
    /\ adapter \in Adapters \ {"DnsMadeEasy"}
    /\ dry_run = FALSE
    /\ zone \in ParZones
    /\ nextId = Cardinality(zone) + 1
    /\ acc \in (IF adapter = "DnSimple" THEN {None, Some(UpstreamZoneId)} ELSE {None})
    /\ zone_id = acc
    /\ poisoned = FALSE
    /\ last = [NoCall EXCEPT !.zoneBefore = zone]
    /\ opsDone = 0
    /\ idOps = 0
    /\ resolveReqs = 0
    /\ resolveFailed = FALSE
    /\ holder = 0
    /\ pc = [c \in Callers |-> "idle"]
    /\ got = [c \in Callers |-> NoOp]
    /\ eval = NoEval
    /\ runtime = "none"
    /\ tasks = [c \in Callers |-> NoTask]

ParStill == UNCHANGED <<adapter, dry_run, acc, last, idOps, eval, runtime, tasks>>

\* the step is over and the operation goes on with the next one
Advance(c, g) ==
    /\ pc' = [pc EXCEPT ![c] = "ready"]
    /\ got' = [got EXCEPT ![c] = [g EXCEPT !.i = @ + 1]]
    /\ UNCHANGED opsDone

\* update_record returns r
Ends(c, g, r) ==
    /\ pc' = [pc EXCEPT ![c] = "done"]
    /\ got' = [got EXCEPT ![c] = [g EXCEPT !.r = r]]
    /\ opsDone' = opsDone + 1

Call(c) ==
    /\ pc[c] = "idle"
    /\ pc' = [pc EXCEPT ![c] = "ready"]
    /\ got' = [got EXCEPT ![c] = [NoOp EXCEPT !.i = 1]]
    /\ UNCHANGED <<zone, nextId, zone_id, poisoned, opsDone, resolveReqs, resolveFailed,
                   holder>>
    /\ ParStill

\* self.zone_id.lock(): waits while the mutex is held; Err(LockingError) on
\* a poisoned mutex
Acquire(c) ==
    /\ At(c) = "id"
    /\ holder = 0
    /\ IF poisoned
       THEN Ends(c, got[c], Err("LockingError")) /\ UNCHANGED holder
       ELSE /\ pc' = [pc EXCEPT ![c] = "locked"]
            /\ holder' = c
            /\ UNCHANGED <<got, opsDone>>
    /\ UNCHANGED <<zone, nextId, zone_id, poisoned, resolveReqs, resolveFailed>>
    /\ ParStill

\* a cache hit returning with the guard still alive
Cached_keeping(c) ==
    /\ pc[c] = "locked"
    /\ IF zone_id # None
       THEN Advance(c, got[c]) /\ UNCHANGED <<holder, resolveReqs>>
       ELSE /\ pc' = [pc EXCEPT ![c] = "calling"]
            /\ resolveReqs' = resolveReqs + 1
            /\ UNCHANGED <<holder, got, opsDone>>
    /\ UNCHANGED <<zone, nextId, zone_id, poisoned, resolveFailed>>
    /\ ParStill

\* if let Some(id) = id_p.as_ref() { return Ok(id) } drops the guard; on a
\* miss the resolution request goes out under the guard
Cached(c) ==
    /\ pc[c] = "locked"
    /\ IF zone_id # None
       THEN Advance(c, got[c]) /\ holder' = 0 /\ UNCHANGED resolveReqs
       ELSE /\ pc' = [pc EXCEPT ![c] = "calling"]
            /\ resolveReqs' = resolveReqs + 1
            /\ UNCHANGED <<holder, got, opsDone>>
    /\ UNCHANGED <<zone, nextId, zone_id, poisoned, resolveFailed>>
    /\ ParStill

\* the upstream answers the resolution: the id is stored, or the error
\* leaves through `?`, or the panic unwinds; the guard is dropped each time
Answer(c) ==
    /\ pc[c] = "calling"
    /\ \E ans \in ResolveAnswers :
         LET z == get_zone_info(adapter, Here,
                                [resolve |-> ans, lookup |-> "200", mutate |-> "ok"])
         IN  /\ zone_id' = IF z.r.tag = "Ok" THEN Some(z.r.v) ELSE zone_id
             /\ poisoned' = (poisoned \/ z.r.tag = "Panic")
             /\ resolveFailed' = (resolveFailed \/ z.r.tag # "Ok")
             /\ IF z.r.tag = "Ok" THEN Advance(c, got[c])
                ELSE Ends(c, [got[c] EXCEPT !.coop = FALSE], z.r)
    /\ holder' = 0
    /\ UNCHANGED <<zone, nextId, resolveReqs>>
    /\ ParStill

\* what update_record does with the result u of its lookup
AfterLookup(c, a, u) ==
    IF u.r.tag # "Ok"
    THEN Ends(c, [got[c] EXCEPT !.coop = @ /\ a.lookup \in {"200", "404"}], u.r)
    ELSE IF u.r.v # None
    THEN Advance(c, [got[c] EXCEPT !.id = (CHOOSE rec \in u.r.v : TRUE).id])
    ELSE CASE adapter \in {"Linode", "DigitalOcean"} ->
                 Ends(c, got[c], Err("RecordNotFound"))
           [] adapter = "Porkbun" -> Advance(c, got[c])
           [] OTHER -> Ends(c, got[c], Ok(Unit))

Lookup(c) ==
    /\ At(c) = "lookup"
    /\ \E a \in AnswersFor(adapter, ParRType, ParHost, FALSE) :
         AfterLookup(c, a, get_upstream_record(adapter, Here, a, ParRType, ParHost))
    /\ UNCHANGED <<zone, nextId, zone_id, poisoned, resolveReqs, resolveFailed, holder>>
    /\ ParStill

Mutate(c) ==
    /\ At(c) = "mutate"
    /\ \E ans \in MutateAnswers :
         LET a == [resolve |-> "ok", lookup |-> "200", mutate |-> ans]
             out == send_update(adapter, Here, a, got[c].id, ParRType, ParHost, ValueOf(c))
         IN  /\ zone' = out.s.zone
             /\ nextId' = out.s.nextId
             /\ Ends(c, [got[c] EXCEPT !.coop = @ /\ ans = "ok"], out.r)
    /\ UNCHANGED <<zone_id, poisoned, resolveReqs, resolveFailed, holder>>
    /\ ParStill

\* the steps of caller c once it has called
Proceed(c) == Acquire(c) \/ Cached(c) \/ Answer(c) \/ Lookup(c) \/ Mutate(c)

NextPar == \E c \in Callers : Call(c) \/ Proceed(c)

SpecPar == InitPar /\ [][NextPar]_vars

\* every upstream request returns, and a caller that can take its next step
\* is scheduled
SpecParFair == SpecPar /\ \A c \in Callers : WF_vars(Proceed(c))


\* the mutex is held exactly by a caller inside get_zone_id, between its
\* lock() and the end of the call
HeldInside == \A c \in Callers : (holder = c) <=> (pc[c] \in {"locked", "calling"})

\* C32: a caller that asks for the cache mutex does not hold it (the
\* identifier calls of one operation take and release it one after the
\* other), the mutex is free whenever no caller is inside get_zone_id, and,
\* every upstream request returning, every operation that was called ends,
\* whatever the answers and also when the resolution fails.
C32_NoDeadlock ==
    /\ [](\A c \in Callers : At(c) = "id" => holder # c)
    /\ []HeldInside
    /\ []((\A c \in Callers : pc[c] \notin {"locked", "calling"}) => holder = 0)
    /\ \A c \in Callers : (pc[c] # "idle") ~> (pc[c] = "done")

\* reached: every caller's operation has ended, one of them after a failed
\* resolution, another after taking the mutex a second time for its
\* mutating request, and the mutex is free
C32_Witness ==
    /\ adapter \in CacheAdapters /\ acc = None
    /\ \A c \in Callers : pc[c] = "done"
    /\ \E c \in Callers : got[c].r.tag = "Err" /\ got[c].i = 1
    /\ \E c \in Callers : got[c].r = Ok(Unit) /\ got[c].i = 4
    /\ resolveFailed /\ holder = 0


\* the callers whose update_record has returned
Returned == {c \in Callers : pc[c] = "done"}

\* C33: once two (or more) concurrent update_record calls for the same host
\* and type have ended, the record having existed when they started and the
\* upstream having answered every request normally, each of them returned
\* Ok(()) and the zone holds exactly one record for that host and type,
\* whose value is the one written by one of the callers.
C33_ConcurrentUpdates ==
    (/\ Cardinality(Returned) >= 2
     /\ \A c \in Callers : pc[c] \in {"idle", "done"}
     /\ \A c \in Returned : got[c].coop
     /\ Cardinality(Matching(last.zoneBefore, ParRType, ParHost)) = 1)
        => /\ \A c \in Returned : got[c].r = Ok(Unit)
           /\ \E rec \in zone :
                 /\ Matching(zone, ParRType, ParHost) = {rec}
                 /\ rec.value \in {ValueOf(c) : c \in Returned}

-----------------------------------------------------------------------------
(* Record names on the wire (Spec)                                         *)

\* C34: every request by which Cloudflare's create_record, lookup and
\* update_record name a record spells the name host.domain, so the name
\* update_record writes is the name create_record wrote and the lookup asks
\* for.
C34_SameName ==
    adapter = "Cloudflare" =>
        \A i \in 1..Len(last.log) :
            last.log[i].k \in {"create", "lookup", "update"} => last.log[i].fq

-----------------------------------------------------------------------------
(* Bunny's record list as it comes over the wire (src/bunny/mod.rs,         *)
(* get_upstream_record): one JSON array with the records of every type,     *)
(* each with its integer Type, its Name and a Value; the record's id is     *)
(* its position in the list.  T is the type the caller wants the value as:  *)
(* "addr" (Ipv4Addr) parses an address only, "text" (String) any value.     *)

\* records in one zone listing
MaxRecs == 2

\* Type codes in a listing: A, TXT, and two codes with no RecordType
\* (5 Redirect, 11 Script)
RawCodes == {0, 3, 5, 11}

Shapes == {"addr", "text"}

RawRecords == [Type : RawCodes, Name : Hosts, shape : Shapes]

RECURSIVE ListsUpTo(_)
ListsUpTo(n) ==
    IF n = 0 THEN {<<>>}
    ELSE LET shorter == ListsUpTo(n - 1)
         IN  shorter \cup {Append(l, rec) : l \in {s \in shorter : Len(s) = n - 1},
                                              rec \in RawRecords}

\* serde_json::from_value::<Record<T>>(obj): the Type goes through
\* de_recordtype, the Value through T's deserialiser
from_value(id, obj, T) ==
    IF de_recordtype(obj.Type).tag # "Ok" THEN Err("JsonError")
    ELSE IF T = "addr" /\ obj.shape # "addr" THEN Err("JsonError")
    ELSE Ok([id |-> id, rtype |-> de_recordtype(obj.Type).v, name |-> obj.Name,
             value |-> obj.shape])

\* the filter of get_upstream_record: obj["Type"] is the number u64rtype and
\* obj["Name"] == host
Selected(data, rtype, host) ==
    {i \in 1..Len(data) : data[i].Type = u64_from(rtype) /\ data[i].Name = host}

\* get_upstream_record deserialising the whole array before it filters
Raw_get_upstream_record_eager(data, rtype, host, T) ==
    IF \E i \in 1..Len(data) : from_value(i, data[i], T).tag # "Ok"
    THEN Err("JsonError")
    ELSE LET hits == Selected(data, rtype, host)
         IN  IF hits = {} THEN Ok(None)
             ELSE LET i == CHOOSE j \in hits : \A k \in hits : j <= k
                  IN  Ok(Some(from_value(i, data[i], T).v))

\* data.iter().filter_map(..).next().transpose()?: the first selected
\* object is deserialised, the others are never looked at
Raw_get_upstream_record(data, rtype, host, T) ==
    LET hits == Selected(data, rtype, host)
    IN  IF hits = {} THEN Ok(None)
        ELSE LET i == CHOOSE j \in hits : \A k \in hits : j <= k
                 record == from_value(i, data[i], T)
             IN  IF record.tag # "Ok" THEN record ELSE Ok(Some(record.v))

\* Bunny::get_record on the listing
Raw_get_record(data, rtype, host, T) ==
    LET resp == Raw_get_upstream_record(data, rtype, host, T)
    IN  IF resp.tag # "Ok" THEN resp
        ELSE IF resp.v = None THEN Ok(None)
        ELSE Ok({rec.value : rec \in resp.v})

\* Bunny::update_record on the listing, the write being accepted
Raw_update_record(data, rtype, host, T) ==
    LET resp == Raw_get_upstream_record(data, rtype, host, T)
    IN  IF resp.tag # "Ok" THEN resp ELSE Ok(Unit)

\* Bunny::delete_record on the listing: it reads the record as
\* Record<String>
Raw_delete_record(data, rtype, host) ==
    LET resp == Raw_get_upstream_record(data, rtype, host, "text")
    IN  IF resp.tag # "Ok" THEN resp ELSE Ok(Unit)

RawInputs == [data : ListsUpTo(MaxRecs), rtype : RTypes, host : Hosts, T : Shapes]

InitRaw == Quiet /\ eval \in [f : {"listing"}, in : RawInputs, out : {<<>>}]

RawGetRecord ==
    /\ eval.f = "listing"
    /\ eval' = [eval EXCEPT !.f = "get_record",
                            !.out = Raw_get_record(eval.in.data, eval.in.rtype,
                                                   eval.in.host, eval.in.T)]
    /\ Still

RawUpdateRecord ==
    /\ eval.f = "listing"
    /\ eval' = [eval EXCEPT !.f = "update_record",
                            !.out = Raw_update_record(eval.in.data, eval.in.rtype,
                                                      eval.in.host, eval.in.T)]
    /\ Still

RawDeleteRecord ==
    /\ eval.f = "listing"
    /\ eval' = [eval EXCEPT !.f = "delete_record",
                            !.out = Raw_delete_record(eval.in.data, eval.in.rtype,
                                                      eval.in.host)]
    /\ Still

NextRaw == RawGetRecord \/ RawUpdateRecord \/ RawDeleteRecord

SpecRaw == InitRaw /\ [][NextRaw]_vars


\* the listing with every record the filter does not select replaced by a
\* record of the unassigned type 11
Foreign(data, rtype, host) ==
    [i \in 1..Len(data) |->
        IF i \in Selected(data, rtype, host) THEN data[i]
        ELSE [Type |-> 11, Name |-> host, shape |-> "text"]]

\* the operation f of Bunny on a listing
RawOp(f, data, rtype, host, T) ==
    CASE f = "get_record"    -> Raw_get_record(data, rtype, host, T)
      [] f = "update_record" -> Raw_update_record(data, rtype, host, T)
      [] OTHER               -> Raw_delete_record(data, rtype, host)

\* the type the operation f reads the value as
ReadAs(f, T) == IF f = "delete_record" THEN "text" ELSE T

\* C35: what Bunny's get_record, update_record and delete_record return for
\* a supported type does not depend on the records the filter does not
\* select (other names, other types, Type codes with no RecordType, values
\* of another shape): with no selected record they return Ok(None) / Ok(()),
\* and with selected records whose value has the wanted shape they return
\* Ok, whatever else the listing holds.
C35_ForeignRecordsIgnored ==
    eval.f \in {"get_record", "update_record", "delete_record"} =>
        LET hits == Selected(eval.in.data, eval.in.rtype, eval.in.host)
        IN  /\ eval.out = RawOp(eval.f, Foreign(eval.in.data, eval.in.rtype, eval.in.host),
                                eval.in.rtype, eval.in.host, eval.in.T)
            /\ hits = {} =>
                  eval.out = (IF eval.f = "get_record" THEN Ok(None) ELSE Ok(Unit))
            /\ (hits # {} /\ \A i \in hits :
                                ReadAs(eval.f, eval.in.T) = "addr"
                                   => eval.in.data[i].shape = "addr")
                  => eval.out.tag = "Ok"

\* get_record(A, h1) as an address returned the value of the A record that
\* comes after a Redirect record (type 5) of the same name holding a text
C35_Witness ==
    /\ eval.f = "get_record"
    /\ eval.in = [data |-> <<[Type |-> 5, Name |-> "h1", shape |-> "text"],
                             [Type |-> 0, Name |-> "h1", shape |-> "addr"]>>,
                  rtype |-> "A", host |-> "h1", T |-> "addr"]
    /\ eval.out = Ok(Some("addr"))

-----------------------------------------------------------------------------
(* The result of ensure_quotes (SpecQuote)                                 *)

\* C36: whatever string it is given, ensure_quotes returns a quoted string:
\* two chars or more, the first and the last a double quote, from which
\* strip_quotes takes exactly the first and the last char away.
C36_WellFormedQuoted ==
    eval.f = "ensure_quotes" =>
        /\ Len(eval.out) >= 2
        /\ starts_with(eval.out, DQ) /\ ends_with(eval.out, DQ)
        /\ strip_quotes(eval.out) = SubSeq(eval.out, 2, Len(eval.out) - 1)

-----------------------------------------------------------------------------
(* DNSimple's account id (Spec)                                            *)

\* the account resolution of the last call failed as get_upstream_id says:
\* ApiError for a missing account list (404), an empty one or one with
\* several accounts; the HTTP client's error when the request failed
ResolutionFailedWith(api, http) ==
    /\ last.a.resolve \in {"notfound", "empty", "many"} => last.r = Err(api)
    /\ last.a.resolve = "error" => last.r = Err(http)
    /\ last.a.resolve # "ok" => zone_id = None

\* C37 as stated: every failed resolution is an ApiError.
C37_AccountId_ApiError ==
    (adapter = "DnSimple" /\ ResolveSent(last.log))
        => ResolutionFailedWith("ApiError", "ApiError")

\* C37: a DNSimple adapter built with an account id never asks the upstream
\* for the account and keeps that id; one built without asks for it in its
\* first operation, keeps the id when the upstream lists exactly one
\* account, and otherwise returns ApiError (no list, no account, several
\* accounts) or the HTTP client's error (the request failed) with the
\* cache still empty.
C37_AccountId ==
    adapter = "DnSimple" =>
        /\ acc # None => (resolveReqs = 0 /\ zone_id = acc)
        /\ (acc = None /\ opsDone = 1) => ResolveSent(last.log)
        /\ ResolveSent(last.log) =>
              /\ acc = None
              /\ last.a.resolve = "ok" => zone_id = Some(UpstreamZoneId)
              /\ ResolutionFailedWith("ApiError", "HttpError")

\* reached: the upstream listed two accounts and the first operation of an
\* adapter built without an account id returned ApiError
C37_Witness ==
    /\ adapter = "DnSimple" /\ acc = None /\ opsDone = 1
    /\ ResolveSent(last.log) /\ last.a.resolve = "many"
    /\ last.r = Err("ApiError") /\ zone_id = None

=============================================================================
